---- MODULE Spec2Model ----
(***************************************************************************)
(* A model of the index core of lance:                                     *)
(*   - rust/lance-table/src/feature_flags.rs  (manifest feature flags)     *)
(*   - rust/lance-index/src/scalar/flat.rs    (flat scalar index)          *)
(*   - rust/lance-index/src/vector/pq.rs      (product quantizer)          *)
(*   - rust/lance-index/src/vector/residual.rs (residual transform)        *)
(*                                                                         *)
(* Each component has its own next-state relation and specification:       *)
(* FlagsSpec (a manifest and apply_feature_flags), GateSpec (the flag-word *)
(* predicates on any word), FlatSpec (a flat index and its searches),      *)
(* RemapSpec (a flat index, its remapping and its fragments), PqSpec (a    *)
(* product quantizer) and ResidualSpec (a residual transform).             *)
(* The variables of the other components keep their initial value there.   *)
(* Spec is the composition of all of them.                                 *)
(*                                                                         *)
(* TLC integers are 32-bit: a u64 flag word is a natural number below      *)
(* 2^31, and a u64 row id is the pair of its upper and lower 32 bits.      *)
(***************************************************************************)
EXTENDS Integers, Sequences, FiniteSets, TLC

VARIABLES
    manifest,   \* the Manifest: fragments, config and the two flag words
    call,       \* the last operation of feature_flags.rs, its arguments and its result
    prev,       \* the outcome of the apply_feature_flags call right before the last one
    index,      \* the FlatIndex: data (values, row_ids) and has_nulls
    search_call, \* the last FlatIndex::search or can_answer_exact call and its outcome
    index_call, \* the last remap, remap_subindex or calculate_included_frags call
    dest_store, \* the file data.lance of the destination store of FlatIndex::remap
    pq,         \* the ProductQuantizer: its five fields, once constructed
    pq_call,    \* the last operation on the ProductQuantizer, its arguments and result
    transformer, \* the ResidualTransform: centroids, part_col and vec_col
    residual_call \* the last ResidualTransform::transform call, its batch and result

vars == <<manifest, call, prev, index, search_call, index_call, dest_store,
          pq, pq_call, transformer, residual_call>>
flagsVars == <<manifest, call, prev>>
flatVars == <<index, search_call, index_call, dest_store>>
pqVars == <<pq, pq_call>>
residualVars == <<transformer, residual_call>>
outsideFlags == <<flatVars, pqVars, residualVars>>
outsideFlat == <<flagsVars, pqVars, residualVars>>
outsidePq == <<flagsVars, flatVars, residualVars>>
outsideResidual == <<flagsVars, flatVars, pqVars>>

(***************************************************************************)
(* Bounds of the model.                                                    *)
(***************************************************************************)
MaxFragments == 2   \* fragments in a manifest
MaxFlagWord == 40   \* flag words 0..MaxFlagWord are enumerated in full
MaxRows == 2        \* rows in a flat index batch
MaxValue == 2       \* indexed values are 1..MaxValue (queries probe 0..MaxValue+1)
MaxListLen == 2     \* length of an IsIn list
MaxSubVectors == 2  \* num_sub_vectors of a product quantizer is 1..MaxSubVectors
MaxSubDim == 2      \* width of a sub-vector is 1..MaxSubDim
MaxVectors == 2     \* vectors in an array given to quantize, codes in a code block
MaxSeed == 1        \* generated codebooks, vectors and codes: seeds 0..MaxSeed
MaxPartitions == 2  \* centroids (partitions) of a residual transform

(***************************************************************************)
(* Option<T>: None or Some(..).                                            *)
(***************************************************************************)
None == "None"
IsSome(x) == x # None

(***************************************************************************)
(* u64 bit operations used on the flag words (| and &), and a bit test     *)
(* used to state the claims.                                               *)
(***************************************************************************)
RECURSIVE BitAnd(_, _)
BitAnd(a, b) ==
    IF a = 0 \/ b = 0 THEN 0
    ELSE (a % 2) * (b % 2) + 2 * BitAnd(a \div 2, b \div 2)

RECURSIVE BitOr(_, _)
BitOr(a, b) ==
    IF a = 0 THEN b
    ELSE IF b = 0 THEN a
    ELSE (IF a % 2 = 1 \/ b % 2 = 1 THEN 1 ELSE 0) + 2 * BitOr(a \div 2, b \div 2)

RECURSIVE BitXor(_, _)
BitXor(a, b) ==
    IF a = 0 THEN b
    ELSE IF b = 0 THEN a
    ELSE (IF (a % 2) # (b % 2) THEN 1 ELSE 0) + 2 * BitXor(a \div 2, b \div 2)

\* Bit k (of value 2^k) of word w is set.
HasBit(w, k) == (w \div (2 ^ k)) % 2 = 1

(***************************************************************************)
(* feature_flags.rs                                                        *)
(***************************************************************************)
FLAG_DELETION_FILES == 1
FLAG_MOVE_STABLE_ROW_IDS == 2
FLAG_USE_V2_FORMAT_DEPRECATED == 4
FLAG_TABLE_CONFIG == 8
FLAG_UNKNOWN == 16

\* A fragment, as far as apply_feature_flags reads it.
Fragments == [deletion_file : {None, "Some"}, row_id_meta : {None, "Some"}]

\* The manifest's config map: a finite map from keys to values.
ConfigKeys == {"k1", "k2"}
Configs == UNION {[S -> {"v"}] : S \in SUBSET ConfigKeys}
is_empty(config) == DOMAIN config = {}

\* Flag words handed to the admissibility checks: every word up to
\* MaxFlagWord, and words with higher bits set.
FlagWords == (0..MaxFlagWord) \cup {64 + 4, 2 ^ 20 + 15, 2 ^ 30, 2 ^ 30 + 2 ^ 4 + 1}

\* Flag words another build may have left in a manifest before
\* apply_feature_flags runs on it: known bits, the deprecated bit, unknown bits.
ForeignFlagWords == {0, 1, 2, 4, 8, 15, 16, 2 ^ 30 + 4}

\* Mutant of ResetFlags: the words are not reset before they are recomputed.
KeepFlags(m) == m

\* manifest.reader_feature_flags = 0; manifest.writer_feature_flags = 0;
ResetFlags(m) ==
    [m EXCEPT !.reader_feature_flags = 0, !.writer_feature_flags = 0]

\* Mutant of has_deletion_files: all() where the code has any().
AllHaveDeletionFile(m) ==
    \A i \in DOMAIN m.fragments : IsSome(m.fragments[i].deletion_file)

has_deletion_files(m) ==
    \E i \in DOMAIN m.fragments : IsSome(m.fragments[i].deletion_file)

has_row_ids(m) ==
    \E i \in DOMAIN m.fragments : IsSome(m.fragments[i].row_id_meta)

\* Mutant of all_have_row_ids: any() where the code has all().
AnyHasRowIds(m) ==
    \E i \in DOMAIN m.fragments : IsSome(m.fragments[i].row_id_meta)

all_have_row_ids(m) ==
    \A i \in DOMAIN m.fragments : IsSome(m.fragments[i].row_id_meta)

\* Mutant of SetBothFlags: the bit is set in the writer word only.
SetWriterFlagOnly(m, flag) ==
    [m EXCEPT !.writer_feature_flags = BitOr(@, flag)]

SetBothFlags(m, flag) ==
    [m EXCEPT !.reader_feature_flags = BitOr(@, flag),
              !.writer_feature_flags = BitOr(@, flag)]

SetDeletionFlags(m) ==
    IF has_deletion_files(m) THEN SetBothFlags(m, FLAG_DELETION_FILES) ELSE m

\* Mutant of SetTableConfigFlag: the bit is set in the reader word too.
SetTableConfigBoth(m) ==
    IF ~is_empty(m.config) THEN SetBothFlags(m, FLAG_TABLE_CONFIG) ELSE m

SetTableConfigFlag(m) ==
    IF ~is_empty(m.config)
    THEN [m EXCEPT !.writer_feature_flags = BitOr(@, FLAG_TABLE_CONFIG)]
    ELSE m

\* Mutant of apply_feature_flags: the bits are toggled on the words as they
\* are, with no reset.
ToggleFeatureFlags(m, enable_stable_row_id) ==
    LET tog(x, flag) == [x EXCEPT !.reader_feature_flags = BitXor(@, flag),
                                  !.writer_feature_flags = BitXor(@, flag)]
        m1 == IF has_deletion_files(m) THEN tog(m, FLAG_DELETION_FILES) ELSE m
    IN  IF has_row_ids(m1) \/ enable_stable_row_id
        THEN IF ~all_have_row_ids(m1)
             THEN [manifest |-> m1, result |-> "InvalidInput"]
             ELSE [manifest |-> SetTableConfigFlag(tog(m1, FLAG_MOVE_STABLE_ROW_IDS)),
                   result |-> "Ok"]
        ELSE [manifest |-> SetTableConfigFlag(m1), result |-> "Ok"]

\* apply_feature_flags(manifest, enable_stable_row_id): the manifest as the
\* call leaves it, and Ok or the kind of the error returned.
apply_feature_flags(m, enable_stable_row_id) ==
    LET m0 == ResetFlags(m)
        m1 == SetDeletionFlags(m0)
    IN  IF has_row_ids(m1) \/ enable_stable_row_id
        THEN IF ~all_have_row_ids(m1)
             THEN [manifest |-> m1, result |-> "InvalidInput"]
             ELSE [manifest |-> SetTableConfigFlag(SetBothFlags(m1, FLAG_MOVE_STABLE_ROW_IDS)),
                   result |-> "Ok"]
        ELSE [manifest |-> SetTableConfigFlag(m1), result |-> "Ok"]

\* Mutant of can_read_dataset: a mask test of the first unknown bit where the
\* code compares numerically.
CanReadByMask(reader_flags) == BitAnd(reader_flags, FLAG_UNKNOWN) = 0

can_read_dataset(reader_flags) == reader_flags < FLAG_UNKNOWN

can_write_dataset(writer_flags) == writer_flags < FLAG_UNKNOWN

has_deprecated_v2_feature_flag(writer_flags) ==
    BitAnd(writer_flags, FLAG_USE_V2_FORMAT_DEPRECATED) # 0

NoCall == [op |-> "none", enable |-> FALSE, result |-> "none", flags |-> 0,
           answer |-> FALSE, pre_reader |-> 0, pre_writer |-> 0]
NoPrev == [valid |-> FALSE, enable |-> FALSE, result |-> "none", reader |-> 0, writer |-> 0]

FlagsInit ==
    /\ manifest = [fragments |-> <<>>, config |-> <<>>,
                   reader_feature_flags |-> 0, writer_feature_flags |-> 0]
    /\ call = NoCall
    /\ prev = NoPrev

\* The callers of apply_feature_flags change the manifest between calls: a
\* commit adds, rewrites or removes a fragment, or replaces the config.
Edited(m) ==
    /\ manifest' = m
    /\ call' = [NoCall EXCEPT !.op = "edit"]
    /\ prev' = NoPrev
    /\ UNCHANGED outsideFlags

AddFragment(frag) ==
    /\ Len(manifest.fragments) < MaxFragments
    /\ Edited([manifest EXCEPT !.fragments = Append(@, frag)])

UpdateFragment(i, frag) ==
    /\ i \in DOMAIN manifest.fragments
    /\ Edited([manifest EXCEPT !.fragments[i] = frag])

RemoveFragment(i) ==
    /\ i \in DOMAIN manifest.fragments
    /\ Edited([manifest EXCEPT !.fragments =
                  SubSeq(@, 1, i - 1) \o SubSeq(@, i + 1, Len(@))])

UpdateConfig(config) ==
    Edited([manifest EXCEPT !.config = config])

\* The manifest was last written by another build: its flag words are what
\* that writer left.
ForeignWriter(rf, wf) ==
    Edited([manifest EXCEPT !.reader_feature_flags = rf,
                            !.writer_feature_flags = wf])

ApplyFeatureFlags(enable) ==
    LET r == apply_feature_flags(manifest, enable)
    IN  /\ manifest' = r.manifest
        /\ call' = [NoCall EXCEPT !.op = "apply", !.enable = enable,
                                  !.result = r.result,
                                  !.pre_reader = manifest.reader_feature_flags,
                                  !.pre_writer = manifest.writer_feature_flags]
        /\ prev' = IF call.op = "apply"
                   THEN [valid |-> TRUE, enable |-> call.enable, result |-> call.result,
                         reader |-> manifest.reader_feature_flags,
                         writer |-> manifest.writer_feature_flags]
                   ELSE NoPrev
        /\ UNCHANGED outsideFlags

\* The three predicates on a flag word; they read nothing else and change
\* nothing.
Asked(fn, flags, answer) ==
    /\ call' = [NoCall EXCEPT !.op = fn, !.flags = flags, !.answer = answer]
    /\ prev' = NoPrev
    /\ UNCHANGED manifest
    /\ UNCHANGED outsideFlags

CanReadDataset(reader_flags) ==
    Asked("can_read_dataset", reader_flags, can_read_dataset(reader_flags))

CanWriteDataset(writer_flags) ==
    Asked("can_write_dataset", writer_flags, can_write_dataset(writer_flags))

HasDeprecatedV2FeatureFlag(writer_flags) ==
    Asked("has_deprecated_v2_feature_flag", writer_flags,
          has_deprecated_v2_feature_flag(writer_flags))

\* The manifest protocol: edits, foreign writers, apply_feature_flags, and
\* the checks on the manifest's own words.
FlagsNext ==
    \/ \E frag \in Fragments : AddFragment(frag)
    \/ \E i \in 1..MaxFragments, frag \in Fragments : UpdateFragment(i, frag)
    \/ \E i \in 1..MaxFragments : RemoveFragment(i)
    \/ \E config \in Configs : UpdateConfig(config)
    \/ \E rf \in ForeignFlagWords, wf \in ForeignFlagWords : ForeignWriter(rf, wf)
    \/ \E enable \in BOOLEAN : ApplyFeatureFlags(enable)
    \/ CanReadDataset(manifest.reader_feature_flags)
    \/ CanWriteDataset(manifest.writer_feature_flags)
    \/ HasDeprecatedV2FeatureFlag(manifest.writer_feature_flags)

\* The predicates as pure functions of any flag word.
GateNext ==
    \/ \E f \in FlagWords : CanReadDataset(f)
    \/ \E f \in FlagWords : CanWriteDataset(f)
    \/ \E f \in FlagWords : HasDeprecatedV2FeatureFlag(f)

(***************************************************************************)
(* flat.rs                                                                 *)
(*                                                                         *)
(* Arrow arrays are sequences of slots [valid, value]: the validity bit    *)
(* and the value buffer.  A null slot has valid = FALSE; its value is what *)
(* the buffer holds there (0 for a primitive, FALSE for a boolean).        *)
(***************************************************************************)
Null == [valid |-> FALSE, value |-> 0]
Some(v) == [valid |-> TRUE, value |-> v]
BoolNull == [valid |-> FALSE, value |-> FALSE]
Bool(b) == [valid |-> TRUE, value |-> b]

\* The values column: nullable, values 1..MaxValue.
ColumnValues == {Null} \cup {Some(v) : v \in 1..MaxValue}
\* ScalarValue arguments of a query: null, stored values, and values below
\* and above every stored value.
ScalarValues == {Null} \cup {Some(v) : v \in 0..(MaxValue + 1)}

\* A u64 row id (RowAddress): the fragment id in the upper 32 bits (hi) and
\* the row offset in the lower 32 bits (lo).
RowIds == {[hi |-> 0, lo |-> 0], [hi |-> 0, lo |-> 1], [hi |-> 1, lo |-> 0]}

\* A RecordBatch of two columns of equal length: column(0) = values,
\* column(1) = row_ids.  A row id identifies one row of the table, so the
\* row ids of a batch are distinct.
Injective(seq) == \A i, j \in DOMAIN seq : seq[i] = seq[j] => i = j
Batches ==
    UNION {{b \in [values : [1..n -> ColumnValues], row_ids : [1..n -> RowIds]] :
               Injective(b.row_ids)} :
           n \in 0..MaxRows}
num_rows(batch) == Len(batch.values)
null_count(array) == Cardinality({i \in DOMAIN array : ~array[i].valid})

\* SargableQuery
Unbounded == [kind |-> "Unbounded", value |-> Null]
Included(v) == [kind |-> "Included", value |-> v]
Excluded(v) == [kind |-> "Excluded", value |-> v]
Bounds == {Unbounded} \cup {Included(v) : v \in ScalarValues}
                      \cup {Excluded(v) : v \in ScalarValues}
NoQuery == [type |-> "none", value |-> Null, values |-> <<>>,
            lower |-> Unbounded, upper |-> Unbounded]
Equals(v) == [NoQuery EXCEPT !.type = "Equals", !.value = v]
IsNull == [NoQuery EXCEPT !.type = "IsNull"]
IsIn(list) == [NoQuery EXCEPT !.type = "IsIn", !.values = list]
Range(l, u) == [NoQuery EXCEPT !.type = "Range", !.lower = l, !.upper = u]
FullTextSearch == [NoQuery EXCEPT !.type = "FullTextSearch"]
InLists == UNION {[1..n -> ScalarValues] : n \in 0..MaxListLen}
Queries ==
    {Equals(v) : v \in ScalarValues} \cup {IsNull, FullTextSearch}
        \cup {IsIn(list) : list \in InLists}
        \cup {Range(l, u) : l \in Bounds, u \in Bounds}

\* arrow::compute::is_null / is_not_null: a boolean array without nulls.
is_null(array) == [i \in DOMAIN array |-> Bool(~array[i].valid)]
is_not_null(array) == [i \in DOMAIN array |-> Bool(array[i].valid)]

\* arrow_ord::cmp::{eq, lt, lt_eq, gt, gt_eq}(array, scalar): the value bit is
\* the comparison of the two value buffers, and the result slot is null where
\* the array slot or the scalar is null.
Compare(op, a, b) ==
    CASE op = "eq" -> a = b
      [] op = "lt" -> a < b
      [] op = "lt_eq" -> a <= b
      [] op = "gt" -> a > b
      [] op = "gt_eq" -> a >= b
cmp(op, array, scalar) ==
    [i \in DOMAIN array |->
        [valid |-> array[i].valid /\ scalar.valid,
         value |-> Compare(op, array[i].value, scalar.value)]]

\* arrow::compute::and / or: the value bits are combined and the result slot
\* is null where either input slot is null (these are not the Kleene kernels).
and(left, right) ==
    [i \in DOMAIN left |->
        [valid |-> left[i].valid /\ right[i].valid,
         value |-> left[i].value /\ right[i].value]]
or(left, right) ==
    [i \in DOMAIN left |->
        [valid |-> left[i].valid /\ right[i].valid,
         value |-> left[i].value \/ right[i].value]]

\* datafusion in_list(column, choices, negated = false).evaluate: SQL
\* membership.  A null needle gives null; a needle found among the non-null
\* choices gives true; one not found gives null when a choice is null and
\* false otherwise.
in_list(array, choices) ==
    LET haystack == {choices[j].value : j \in {k \in DOMAIN choices : choices[k].valid}}
        haystack_has_nulls == \E j \in DOMAIN choices : ~choices[j].valid
    IN  [i \in DOMAIN array |->
            IF ~array[i].valid THEN BoolNull
            ELSE IF array[i].value \in haystack THEN Bool(TRUE)
            ELSE IF haystack_has_nulls THEN BoolNull
            ELSE Bool(FALSE)]

\* Mutant of filter: the validity of the predicate is not looked at.
FilterByValueBits(array, predicate) ==
    {array[i] : i \in {k \in DOMAIN array : predicate[k].value}}

\* arrow_select::filter::filter(ids, predicate) collected by
\* RowIdTreeMap::from_iter: the ids of the slots whose predicate is true; a
\* null predicate slot selects nothing.
filter(array, predicate) ==
    {array[i] : i \in {k \in DOMAIN array : predicate[k].valid /\ predicate[k].value}}

\* Mutant of EqualsPredicate: no is_null branch, eq for every value.
EqualsByEqOnly(values, value) == cmp("eq", values, value)

\* SargableQuery::Equals(value)
EqualsPredicate(values, value) ==
    IF ~value.valid THEN is_null(values) ELSE cmp("eq", values, value)

\* SargableQuery::IsIn(values)
IsInPredicate(idx, list) ==
    LET has_null == \E j \in DOMAIN list : ~list[j].valid
        predicate == in_list(idx.data.values, list)
    IN  IF has_null /\ idx.has_nulls
        THEN or(predicate, is_null(idx.data.values))
        ELSE predicate

LowerOp(lower) == IF lower.kind = "Included" THEN "gt_eq" ELSE "gt"
UpperOp(upper) == IF upper.kind = "Included" THEN "lt_eq" ELSE "lt"

\* Mutant of RangePredicate: with both bounds given, an Excluded upper bound
\* is compared with lt_eq.
RangeUpperAlwaysIncluded(values, lower, upper) ==
    IF lower.kind = "Unbounded" THEN cmp(UpperOp(upper), values, upper.value)
    ELSE IF upper.kind = "Unbounded" THEN cmp(LowerOp(lower), values, lower.value)
    ELSE and(cmp(LowerOp(lower), values, lower.value),
             cmp("lt_eq", values, upper.value))

\* SargableQuery::Range(lower, upper) with at least one bound: the eight
\* arms of the match.
RangePredicate(values, lower, upper) ==
    IF lower.kind = "Unbounded" THEN cmp(UpperOp(upper), values, upper.value)
    ELSE IF upper.kind = "Unbounded" THEN cmp(LowerOp(lower), values, lower.value)
    ELSE and(cmp(LowerOp(lower), values, lower.value),
             cmp(UpperOp(upper), values, upper.value))

\* Outcomes of a search call.
Exact(ids) == [outcome |-> "Exact", error |-> "none", row_ids |-> ids]
Err(kind) == [outcome |-> "Err", error |-> kind, row_ids |-> {}]
Panic == [outcome |-> "Panic", error |-> "none", row_ids |-> {}]

\* Mutant of NoBoundsOutcome: an invalid-input error is returned.
NoBoundsAsError == Err("InvalidInput")

\* (Bound::Unbounded, Bound::Unbounded) => panic!(..)
NoBoundsOutcome == Panic

\* Mutant of FullTextUnsupported: the query is answered with no row ids.
FullTextAsEmptyResult == Exact({})

\* SargableQuery::FullTextSearch(_) => return Err(Error::invalid_input(..))
FullTextUnsupported == Err("InvalidInput")

\* if self.has_nulls && matches!(query, SargableQuery::Range(_, _))
NullsFiltered(idx, query, predicate) ==
    IF idx.has_nulls /\ query.type = "Range"
    THEN and(is_not_null(idx.data.values), predicate)
    ELSE predicate

\* FlatIndex::search(query, metrics)
search(idx, query) ==
    LET values == idx.data.values
        ids == idx.data.row_ids
    IN  IF query.type = "FullTextSearch" THEN FullTextUnsupported
        ELSE IF /\ query.type = "Range"
                /\ query.lower.kind = "Unbounded"
                /\ query.upper.kind = "Unbounded"
        THEN NoBoundsOutcome
        ELSE LET predicate ==
                     CASE query.type = "Equals" -> EqualsPredicate(values, query.value)
                       [] query.type = "IsNull" -> is_null(values)
                       [] query.type = "IsIn" -> IsInPredicate(idx, query.values)
                       [] query.type = "Range" ->
                              RangePredicate(values, query.lower, query.upper)
             IN  Exact(filter(ids, NullsFiltered(idx, query, predicate)))

\* Mutant of can_answer_exact: a full text search is not answered exactly.
CanAnswerExactUnlessFullText(query) == query.type # "FullTextSearch"

\* FlatIndex::can_answer_exact(_)
can_answer_exact(query) == TRUE

NotLoaded == [built_by |-> "none", data |-> [values |-> <<>>, row_ids |-> <<>>],
              has_nulls |-> FALSE]
IsLoaded(idx) == idx.built_by # "none"
Idle == [state |-> "idle", query |-> NoQuery, comparisons |-> 0, result |-> Exact({}),
         answer |-> FALSE]

\* HashMap<u64, Option<u64>>: the keys present, each with None (the row is
\* deleted) or Some(new id). A new id is one in use or one of a new fragment.
RemapTargets == {[hi |-> 0, lo |-> 1], [hi |-> 2, lo |-> 0]}
NoneId == [some |-> FALSE, id |-> [hi |-> 0, lo |-> 0]]
SomeId(id) == [some |-> TRUE, id |-> id]
Mappings ==
    UNION {[keys -> {NoneId} \cup {SomeId(id) : id \in RemapTargets}] :
              keys \in SUBSET RowIds}

\* Mutant of NewId: a row id that is not a key of the mapping is deleted.
NewIdOfKeysOnly(mapping, old_id) ==
    IF old_id \in DOMAIN mapping THEN mapping[old_id] ELSE NoneId

\* mapping.get(old_id).copied().unwrap_or(Some(*old_id))
NewId(mapping, old_id) ==
    IF old_id \in DOMAIN mapping THEN mapping[old_id] ELSE SomeId(old_id)

\* row_ids.values().iter().enumerate().filter_map(..).collect::<Vec<_>>()
RECURSIVE val_idx_and_new_id(_, _, _)
val_idx_and_new_id(row_ids, mapping, idx) ==
    IF idx > Len(row_ids) THEN <<>>
    ELSE LET new_id == NewId(mapping, row_ids[idx])
         IN  (IF new_id.some THEN <<[val_idx |-> idx, new_id |-> new_id.id]>> ELSE <<>>)
                 \o val_idx_and_new_id(row_ids, mapping, idx + 1)

\* arrow_select::take::take(values, indices, None)
take(values, indices) == [k \in 1..Len(indices) |-> values[indices[k]]]

\* remap_batch(batch, mapping)
remap_batch(batch, mapping) ==
    LET pairs == val_idx_and_new_id(batch.row_ids, mapping, 1)
        new_ids == [k \in 1..Len(pairs) |-> pairs[k].new_id]
        new_val_indices == [k \in 1..Len(pairs) |-> pairs[k].val_idx]
    IN  [values |-> take(batch.values, new_val_indices), row_ids |-> new_ids]

\* RowAddress::from(row_id).fragment_id(): the upper 32 bits of the row id
fragment_id(row_id) == row_id.hi

\* frag_ids.sort()
RECURSIVE sort(_)
sort(seq) ==
    IF seq = <<>> THEN <<>>
    ELSE LET least == CHOOSE i \in DOMAIN seq : \A j \in DOMAIN seq : seq[i] <= seq[j]
         IN  <<seq[least]>> \o
             sort([k \in 1..(Len(seq) - 1) |-> IF k < least THEN seq[k] ELSE seq[k + 1]])

\* Mutant of dedup: the vector is left as it is.
KeepDuplicates(seq) == seq

\* frag_ids.dedup(): consecutive repeated elements are removed
RECURSIVE dedup(_)
dedup(seq) ==
    IF Len(seq) <= 1 THEN seq
    ELSE IF seq[1] = seq[2] THEN dedup(Tail(seq))
    ELSE <<seq[1]>> \o dedup(Tail(seq))

\* RoaringBitmap::from_sorted_iter(frag_ids).unwrap(): the bitmap of a
\* strictly increasing sequence, a panic on any other.
from_sorted_iter_unwrap(seq) ==
    IF \A i \in 1..(Len(seq) - 1) : seq[i] < seq[i + 1]
    THEN [outcome |-> "Ok", bitmap |-> {seq[i] : i \in DOMAIN seq}]
    ELSE [outcome |-> "Panic", bitmap |-> {}]

\* FlatIndex::calculate_included_frags()
calculate_included_frags(idx) ==
    LET frag_ids == [i \in 1..Len(idx.data.row_ids) |-> fragment_id(idx.data.row_ids[i])]
    IN  from_sorted_iter_unwrap(dedup(sort(frag_ids)))

EmptyBatch == [values |-> <<>>, row_ids |-> <<>>]
NoIndexCall == [op |-> "none", serialized |-> EmptyBatch, mapping |-> <<>>,
                outcome |-> "none", batch |-> EmptyBatch, bitmap |-> {}]
NoFile == [written |-> FALSE, batch |-> EmptyBatch]

FlatInit ==
    /\ index = NotLoaded
    /\ search_call = Idle
    /\ index_call = NoIndexCall
    /\ dest_store = NoFile

\* FlatIndex { data, has_nulls } with has_nulls = column(0).null_count() > 0
Loaded(by, batch) ==
    [built_by |-> by, data |-> batch, has_nulls |-> null_count(batch.values) > 0]

\* ScalarIndex::load (frag_reuse_index = None): the batch read from data.lance
Load ==
    /\ ~IsLoaded(index)
    /\ index_call.op = "none"
    /\ \E batch \in Batches : index' = Loaded("load", batch)
    /\ UNCHANGED <<search_call, index_call, dest_store>>
    /\ UNCHANGED outsideFlat

\* FlatIndexMetadata::load_subindex(serialized)
LoadSubindex ==
    /\ ~IsLoaded(index)
    /\ index_call.op = "none"
    /\ \E serialized \in Batches : index' = Loaded("load_subindex", serialized)
    /\ UNCHANGED <<search_call, index_call, dest_store>>
    /\ UNCHANGED outsideFlat

\* A caller awaits search(query, metrics): the comparisons are recorded
\* first, then the call returns Exact or an error, or panics.
Search ==
    /\ IsLoaded(index)
    /\ search_call.state = "idle"
    /\ \E query \in Queries :
           search_call' = [state |-> "returned", query |-> query,
                           comparisons |-> num_rows(index.data),
                           result |-> search(index, query), answer |-> FALSE]
    /\ UNCHANGED <<index, index_call, dest_store>>
    /\ UNCHANGED outsideFlat

\* A caller asks can_answer_exact(query) and gets a boolean.
CanAnswerExact ==
    /\ IsLoaded(index)
    /\ search_call.state = "idle"
    /\ \E query \in Queries :
           search_call' = [state |-> "answered", query |-> query, comparisons |-> 0,
                           result |-> Exact({}), answer |-> can_answer_exact(query)]
    /\ UNCHANGED <<index, index_call, dest_store>>
    /\ UNCHANGED outsideFlat

\* The caller has taken the outcome of its call; the index is as it was.
TakeResult ==
    /\ search_call.state \in {"returned", "answered"}
    /\ search_call' = Idle
    /\ UNCHANGED <<index, index_call, dest_store>>
    /\ UNCHANGED outsideFlat

\* FlatIndexMetadata::remap_subindex(serialized, mapping). It reads no index:
\* it is called on the serialized batch of a sub-index that is not loaded.
RemapSubindex ==
    /\ ~IsLoaded(index)
    /\ index_call.op = "none"
    /\ \E serialized \in Batches, mapping \in Mappings :
           index_call' = [op |-> "remap_subindex", serialized |-> serialized,
                          mapping |-> mapping, outcome |-> "Ok",
                          batch |-> remap_batch(serialized, mapping), bitmap |-> {}]
    /\ UNCHANGED <<index, search_call, dest_store>>
    /\ UNCHANGED outsideFlat

\* FlatIndex::remap(mapping, dest_store): the remapped batch is written as
\* the new file data.lance of the destination store.
Remap ==
    /\ IsLoaded(index)
    /\ index_call.op = "none"
    /\ ~dest_store.written
    /\ \E mapping \in Mappings :
           LET remapped == remap_batch(index.data, mapping)
           IN  /\ dest_store' = [written |-> TRUE, batch |-> remapped]
               /\ index_call' = [op |-> "remap", serialized |-> index.data,
                                 mapping |-> mapping, outcome |-> "Ok",
                                 batch |-> remapped, bitmap |-> {}]
    /\ UNCHANGED <<index, search_call>>
    /\ UNCHANGED outsideFlat

\* A caller awaits calculate_included_frags().
CalculateIncludedFrags ==
    /\ IsLoaded(index)
    /\ index_call.op = "none"
    /\ LET frags == calculate_included_frags(index)
       IN  index_call' = [op |-> "calculate_included_frags", serialized |-> index.data,
                          mapping |-> <<>>, outcome |-> frags.outcome,
                          batch |-> EmptyBatch, bitmap |-> frags.bitmap]
    /\ UNCHANGED <<index, search_call, dest_store>>
    /\ UNCHANGED outsideFlat

\* The caller has taken the outcome of its call.
ReturnIndexCall ==
    /\ index_call.op # "none"
    /\ index_call' = NoIndexCall
    /\ UNCHANGED <<index, search_call, dest_store>>
    /\ UNCHANGED outsideFlat

RemapNext ==
    \/ Load
    \/ LoadSubindex
    \/ RemapSubindex
    \/ Remap
    \/ CalculateIncludedFrags
    \/ ReturnIndexCall

FlatNext ==
    \/ Load
    \/ LoadSubindex
    \/ Search
    \/ CanAnswerExact
    \/ TakeResult

(***************************************************************************)
(* rust/lance-index/src/vector/pq.rs                                       *)
(*                                                                         *)
(* A floating-point value is a small integer. Codebooks, vectors, queries  *)
(* and code blocks are generated from a seed, so that they grow with the   *)
(* bounds one array per seed. A codebook holds num_centroids * dimension   *)
(* values, and an array given to quantize has the element type and the     *)
(* dimension of the quantizer or is no array of float vectors at all.      *)
(***************************************************************************)
DistanceTypes == {"L2", "Cosine", "Dot", "Hamming"}
FloatTypes == {"Float16", "Float32", "Float64"}
NumBits == {2, 4, 8}
Seeds == 0..MaxSeed

\* utils::num_centroids(num_bits)
num_centroids(num_bits) == 2 ^ num_bits

\* Arrow arrays: a FixedSizeListArray over flat values, and any other array.
FixedSizeList(value_type, value_length, values) ==
    [kind |-> "FixedSizeList", value_type |-> value_type,
     value_length |-> value_length, values |-> values]
Primitive(value_type, values) ==
    [kind |-> "Primitive", value_type |-> value_type, value_length |-> 0,
     values |-> values]
fsl_len(fsl) == Len(fsl.values) \div fsl.value_length
Generated(seed, len) == [p \in 1..len |-> (((seed + 2) * p * p + seed) % 5) - 1]
GeneratedBytes(seed, len) == [p \in 1..len |-> ((seed + 1) * 77 * p + 5 * seed) % 256]

\* &values[offset .. offset + len]
Slice(values, offset, len) == [k \in 1..len |-> values[offset + k]]

RECURSIVE SeqSum(_)
SeqSum(seq) == IF seq = <<>> THEN 0 ELSE Head(seq) + SeqSum(Tail(seq))

RECURSIVE Flatten(_)
Flatten(seqs) == IF seqs = <<>> THEN <<>> ELSE Head(seqs) \o Flatten(Tail(seqs))

\* Results of the operations of the quantizer.
PqOk(value) == [outcome |-> "Ok", error |-> "none", value |-> value]
IndexError == [outcome |-> "Err", error |-> "Index", value |-> <<>>]
PqPanic == [outcome |-> "Panic", error |-> "none", value |-> <<>>]

\* ProductQuantizer::new(num_sub_vectors, num_bits, dimension, codebook, distance_type)
new(num_sub_vectors, num_bits, dimension, codebook, distance_type) ==
    [built |-> TRUE, num_sub_vectors |-> num_sub_vectors, num_bits |-> num_bits,
     dimension |-> dimension, codebook |-> codebook, distance_type |-> distance_type]
NoPq == [built |-> FALSE, num_sub_vectors |-> 0, num_bits |-> 0, dimension |-> 0,
         codebook |-> FixedSizeList("Float32", 1, <<>>), distance_type |-> "L2"]

\* lance_linalg::distance: the squared L2 distance and the dot distance.
l2(x, y) == SeqSum([k \in 1..Len(x) |-> (x[k] - y[k]) * (x[k] - y[k])])
dot_distance(x, y) == 1 - SeqSum([k \in 1..Len(x) |-> x[k] * y[k]])

\* get_sub_vector_centroids::<NUM_BITS, _>(codebook, dim, num_sub_vectors, sub_idx):
\* one slice of the codebook, num_centroids * sub_vector_width values long.
get_sub_vector_centroids(codebook, num_bits, dimension, num_sub_vectors, sub_vector_idx) ==
    LET sub_vector_width == dimension \div num_sub_vectors
        len == num_centroids(num_bits) * sub_vector_width
    IN  Slice(codebook, sub_vector_idx * len, len)

\* argmin: the first position of a least value among dists[lo..hi].
RECURSIVE argmin(_, _, _)
argmin(dists, lo, hi) ==
    IF lo = hi THEN lo
    ELSE LET mid == (lo + hi) \div 2
             left == argmin(dists, lo, mid)
             right == argmin(dists, mid + 1, hi)
         IN  IF dists[right] < dists[left] THEN right ELSE left

\* kmeans::compute_partition(centroids, vector, distance_type): the index of
\* the centroid nearest to the vector.
compute_partition(centroids, vector, distance_type) ==
    LET dim == Len(vector)
        dists == [c \in 1..(Len(centroids) \div dim) |->
                     CASE distance_type = "L2" ->
                              l2(vector, Slice(centroids, (c - 1) * dim, dim))
                       [] distance_type = "Dot" ->
                              dot_distance(vector, Slice(centroids, (c - 1) * dim, dim))]
    IN  argmin(dists, 1, Len(dists)) - 1

\* Mutant of pack: the first code of a pair goes to the high nibble.
PackHighNibbleFirst(NUM_BITS, sub_vec_code) ==
    IF NUM_BITS = 4
    THEN [k \in 1..(Len(sub_vec_code) \div 2) |->
             BitOr((sub_vec_code[2 * k - 1] * 16) % 256, sub_vec_code[2 * k])]
    ELSE sub_vec_code

\* if NUM_BITS == 4 { sub_vec_code.chunks_exact(2).map(|v| (v[1] << 4) | v[0]) }
\* else { sub_vec_code }, on u8
pack(NUM_BITS, sub_vec_code) ==
    IF NUM_BITS = 4
    THEN [k \in 1..(Len(sub_vec_code) \div 2) |->
             BitOr((sub_vec_code[2 * k] * 16) % 256, sub_vec_code[2 * k - 1])]
    ELSE sub_vec_code

\* Mutant of sub_vec_code: every sub-vector is encoded against the centroids
\* of sub-vector 0.
SubVecCodeInFirstSlice(self, vector) ==
    LET sub_dim == self.dimension \div self.num_sub_vectors
    IN  [i \in 1..self.num_sub_vectors |->
            compute_partition(
                get_sub_vector_centroids(self.codebook.values, self.num_bits,
                                         self.dimension, self.num_sub_vectors, 0),
                Slice(vector, (i - 1) * sub_dim, sub_dim),
                self.distance_type) % 256]

\* The closure of transform_impl applied to one vector: the code of each
\* sub-vector (as u8).
sub_vec_code(self, vector) ==
    LET sub_dim == self.dimension \div self.num_sub_vectors
    IN  [i \in 1..self.num_sub_vectors |->
            compute_partition(
                get_sub_vector_centroids(self.codebook.values, self.num_bits,
                                         self.dimension, self.num_sub_vectors, i - 1),
                Slice(vector, (i - 1) * sub_dim, sub_dim),
                self.distance_type) % 256]

\* ProductQuantizer::transform_impl::<NUM_BITS, T>(vectors)
transform_impl(NUM_BITS, self, vectors) ==
    IF NUM_BITS = 4 /\ self.num_sub_vectors % 2 # 0 THEN IndexError
    ELSE LET dim == self.dimension
             values == Flatten([v \in 1..(Len(vectors.values) \div dim) |->
                          pack(NUM_BITS,
                               sub_vec_code(self, Slice(vectors.values, (v - 1) * dim, dim)))])
             num_sub_vectors_in_byte == IF NUM_BITS = 4 THEN self.num_sub_vectors \div 2
                                        ELSE self.num_sub_vectors
         IN  PqOk(FixedSizeList("UInt8", num_sub_vectors_in_byte, values))

\* ProductQuantizer::transform::<T>(vectors)
transform(self, vectors) ==
    IF self.num_bits \in {4, 8} THEN transform_impl(self.num_bits, self, vectors)
    ELSE IndexError

\* Quantization::quantize(vectors)
quantize(self, vectors) ==
    IF vectors.kind # "FixedSizeList" THEN IndexError
    ELSE IF vectors.value_type \notin FloatTypes THEN IndexError
    ELSE transform(self, vectors)

\* Quantization::field(): the data type of the column of codes
field(self) ==
    [name |-> "__pq_code", value_type |-> "UInt8",
     value_length |-> (self.num_sub_vectors * self.num_bits) \div 8]

\* ProductQuantizer::centroids::<T>(sub_vector_idx)
centroids(self, sub_vector_idx) ==
    IF self.num_bits \in {4, 8}
    THEN PqOk(get_sub_vector_centroids(self.codebook.values, self.num_bits,
                                       self.dimension, self.num_sub_vectors,
                                       sub_vector_idx))
    ELSE PqPanic

\* match distance_type { DistanceType::Cosine => DistanceType::L2, _ => distance_type }
CosineAsL2(distance_type) == IF distance_type = "Cosine" THEN "L2" ELSE distance_type

\* FixedSizeListArray::try_new_from_values(values, list_size)
try_new_from_values(array, list_size) ==
    IF Len(array.values) % list_size = 0
    THEN PqOk(FixedSizeList(array.value_type, list_size, array.values))
    ELSE [outcome |-> "Err", error |-> "Arrow", value |-> <<>>]

\* PQBuildParams::build(data, distance_type), the k-means trainer: it fails,
\* or returns a quantizer with the sub-vectors and bits of the parameters,
\* the dimension of the data and some trained codebook.
TrainOutcomes(data, distance_type, num_sub_vectors, num_bits) ==
    IF data.kind # "FixedSizeList" THEN {IndexError}
    ELSE {IndexError} \cup
         {PqOk(new(num_sub_vectors, num_bits, data.value_length,
                   FixedSizeList(data.value_type, data.value_length,
                                 Generated(seed, num_centroids(num_bits) * data.value_length)),
                   CosineAsL2(distance_type))) : seed \in Seeds}

\* Quantization::build(data, distance_type, params); trained is what
\* params.build(data, distance_type) returns when it is called.
build(data, distance_type, params, trained) ==
    IF data.kind # "FixedSizeList" THEN IndexError
    ELSE IF params.codebook.some
    THEN LET codebook == try_new_from_values(params.codebook.array, data.value_length)
         IN  IF codebook.outcome # "Ok" THEN codebook
             ELSE PqOk(new(params.num_sub_vectors, params.num_bits, data.value_length,
                           codebook.value, distance_type))
    ELSE trained

\* Mutant of Assign: only the codebook of the new quantizer is taken.
AssignCodebookOnly(self, built) == [self EXCEPT !.codebook = built.codebook]

\* *self = built
Assign(self, built) == built

\* Quantization::retrain(data): the quantizer after the call and the value
\* returned; built is what params.build(data, self.distance_type) returns.
retrain(self, built) ==
    IF built.outcome = "Ok"
    THEN [self |-> Assign(self, built.value), result |-> PqOk(<<>>)]
    ELSE [self |-> self, result |-> built]

\* Quantization::metadata(args)
metadata(self, args) ==
    LET codebook_position == IF args.some THEN args.codebook_position
                             ELSE [some |-> TRUE, position |-> 0]
    IN  IF ~codebook_position.some THEN PqPanic
        ELSE PqOk([codebook_position |-> codebook_position.position,
                   nbits |-> self.num_bits,
                   num_sub_vectors |-> self.num_sub_vectors,
                   dimension |-> self.dimension,
                   codebook |-> [some |-> TRUE, fsl |-> self.codebook],
                   codebook_tensor |-> <<>>,
                   transposed |-> IF args.some THEN args.transposed ELSE FALSE])

\* The bytes of an element of the given type, least significant first (the
\* values of the model are between -256 and 255).
byte_width(value_type) ==
    CASE value_type = "Float16" -> 2 [] value_type = "Float32" -> 4
      [] value_type = "Float64" -> 8 [] OTHER -> 1

\* pb::Tensor::try_from(&FixedSizeListArray): element type, shape
\* [rows, value_length] and the bytes of the values
tensor_from_fsl(fsl) ==
    LET width == byte_width(fsl.value_type)
        to_le_byte(value, j) ==
            IF j = 0 THEN value % 256 ELSE IF value < 0 THEN 255 ELSE 0
    IN  [data_type |-> fsl.value_type,
         shape |-> <<fsl_len(fsl), fsl.value_length>>,
         data |-> [b \in 1..(Len(fsl.values) * width) |->
                      to_le_byte(fsl.values[((b - 1) \div width) + 1], (b - 1) % width)]]

\* FixedSizeListArray::try_from(&pb::Tensor)
fsl_from_tensor(tensor) ==
    LET width == byte_width(tensor.data_type)
        from_le_bytes(bytes) ==
            IF bytes[Len(bytes)] = 255 THEN bytes[1] - 256 ELSE bytes[1]
    IN  IF Len(tensor.shape) # 2
           \/ tensor.data_type \notin FloatTypes
           \/ Len(tensor.data) # tensor.shape[1] * tensor.shape[2] * width
        THEN [outcome |-> "Err", error |-> "Arrow", value |-> <<>>]
        ELSE PqOk(FixedSizeList(tensor.data_type, tensor.shape[2],
                     [p \in 1..(tensor.shape[1] * tensor.shape[2]) |->
                         from_le_bytes(Slice(tensor.data, (p - 1) * width, width))]))

\* TryFrom<&ProductQuantizer> for pb::Pq (the fields are cast to u32; the
\* values of the model are far below 2^32)
to_proto(self) ==
    PqOk([num_bits |-> self.num_bits,
          num_sub_vectors |-> self.num_sub_vectors,
          dimension |-> self.dimension,
          codebook |-> <<>>,
          codebook_tensor |-> [some |-> TRUE, tensor |-> tensor_from_fsl(self.codebook)]])

\* Mutant of ProtoCodebook: the legacy array is read whether or not the
\* tensor is present.
ProtoCodebookFromLegacy(message) ==
    try_new_from_values(Primitive("Float32", message.codebook), message.dimension)

\* from_proto: match proto.codebook_tensor.as_ref() { Some(tensor) => .., None => .. }
ProtoCodebook(message) ==
    IF message.codebook_tensor.some THEN fsl_from_tensor(message.codebook_tensor.tensor)
    ELSE try_new_from_values(Primitive("Float32", message.codebook), message.dimension)

\* ProductQuantizer::from_proto(proto, distance_type)
from_proto(message, distance_type) ==
    LET codebook == ProtoCodebook(message)
    IN  IF codebook.outcome # "Ok" THEN codebook
        ELSE PqOk(new(message.num_sub_vectors, message.num_bits, message.dimension,
                      codebook.value, CosineAsL2(distance_type)))

\* Quantization::from_metadata(metadata, distance_type)
from_metadata(meta, distance_type) ==
    LET codebook == IF meta.codebook.some THEN PqOk(meta.codebook.fsl)
                    ELSE fsl_from_tensor(meta.codebook_tensor)
    IN  IF codebook.outcome # "Ok" THEN codebook
        ELSE PqOk(new(meta.num_sub_vectors, meta.nbits, meta.dimension,
                      codebook.value, CosineAsL2(distance_type)))

\* distance::build_distance_table_l2 and build_distance_table_dot: the flat
\* [num_sub_vectors, num_centroids] table of the distances of sub-vector i
\* of the query to the centroids of sub-vector i.
build_distance_table(self, key, distance_type) ==
    LET sub_dim == self.dimension \div self.num_sub_vectors
        n == num_centroids(self.num_bits)
    IN  [p \in 1..(self.num_sub_vectors * n) |->
            LET i == (p - 1) \div n
                centroid == Slice(get_sub_vector_centroids(self.codebook.values, self.num_bits,
                                      self.dimension, self.num_sub_vectors, i),
                                  ((p - 1) % n) * sub_dim, sub_dim)
            IN  IF distance_type = "Dot"
                THEN dot_distance(Slice(key, i * sub_dim, sub_dim), centroid)
                ELSE l2(Slice(key, i * sub_dim, sub_dim), centroid)]

\* distance::compute_pq_distance(distance_table, num_bits, num_sub_vectors,
\* code, tile): for each vector of the transposed code block the sum of
\* the table entries of its codes; 4-bit codes are unpacked, the low nibble
\* first. The tile size does not change the result and is left out.
compute_pq_distance(distance_table, num_bits, num_sub_vectors, code) ==
    LET bytes == IF num_bits = 4 THEN num_sub_vectors \div 2 ELSE num_sub_vectors
        num_vectors == Len(code) \div bytes
        code_of(k, i) ==
            IF num_bits = 4
            THEN LET byte == code[(i \div 2) * num_vectors + k]
                 IN  IF i % 2 = 0 THEN byte % 16 ELSE byte \div 16
            ELSE code[i * num_vectors + k]
    IN  [k \in 1..num_vectors |->
            SeqSum([i \in 1..num_sub_vectors |->
                       distance_table[(i - 1) * num_centroids(num_bits)
                                      + code_of(k, i - 1) + 1]])]

\* The distances returned: scores[k] / divisor is the k-th distance; table is
\* the distance table that was built (none: <<>>).
Distances(scores, divisor, table) ==
    PqOk([scores |-> scores, divisor |-> divisor, table |-> table])

\* Mutant of pq_distances: the Dot scores keep the bias of the table.
PqDistancesWithBias(self, key, code, distance_type) ==
    IF key.value_type \notin FloatTypes THEN IndexError
    ELSE IF key.value_type # self.codebook.value_type THEN PqPanic
    ELSE LET distance_table == build_distance_table(self, key.values, distance_type)
         IN  Distances(compute_pq_distance(distance_table, self.num_bits,
                                           self.num_sub_vectors, code),
                       1, distance_table)

\* ProductQuantizer::l2_distances(key, code) and dot_distances(key, code):
\* a key of another float type than the codebook fails the cast of the
\* codebook values (as_primitive panics).
pq_distances(self, key, code, distance_type) ==
    IF key.value_type \notin FloatTypes THEN IndexError
    ELSE IF key.value_type # self.codebook.value_type THEN PqPanic
    ELSE LET distance_table == build_distance_table(self, key.values, distance_type)
             distances == compute_pq_distance(distance_table, self.num_bits,
                                              self.num_sub_vectors, code)
             diff == self.num_sub_vectors - 1
         IN  IF distance_type = "Dot"
             THEN Distances([k \in 1..Len(distances) |-> distances[k] - diff], 1,
                            distance_table)
             ELSE Distances(distances, 1, distance_table)

\* ProductQuantizer::compute_distances(query, code); debug_assertions tells
\* whether the build checks debug_assert!.
compute_distances(self, query, code, debug_assertions) ==
    IF code = <<>> THEN Distances(<<>>, 1, <<>>)
    ELSE CASE self.distance_type = "L2" -> pq_distances(self, query, code, "L2")
           [] self.distance_type = "Cosine" ->
                  IF debug_assertions THEN PqPanic
                  ELSE LET l2_dists == pq_distances(self, query, code, "L2")
                       IN  IF l2_dists.outcome # "Ok" THEN l2_dists
                           ELSE Distances(l2_dists.value.scores, 2, l2_dists.value.table)
           [] self.distance_type = "Dot" -> pq_distances(self, query, code, "Dot")
           [] OTHER -> PqPanic

\* The quantizers of the model: num_bits, num_sub_vectors and a dimension
\* that num_sub_vectors divides.
Shapes ==
    {[num_bits |-> b, num_sub_vectors |-> n, dimension |-> n * w] :
        b \in NumBits, n \in 1..MaxSubVectors, w \in 1..MaxSubDim}
DrawnTypes == {"Float16", "Float32"}
CodebookValues(shape, seed) ==
    Generated(seed, num_centroids(shape.num_bits) * shape.dimension)
NoArray == [some |-> FALSE, array |-> Primitive("Float32", <<>>)]
SomeArray(array) == [some |-> TRUE, array |-> array]
NoTensor == [some |-> FALSE, tensor |-> [data_type |-> "Float32", shape |-> <<>>, data |-> <<>>]]

NoPqCall == [op |-> "none", pre |-> NoPq, asked |-> "L2", input |-> <<>>, result |-> PqOk(<<>>)]

PqInit ==
    /\ pq = NoPq
    /\ pq_call = NoPqCall

\* A caller constructs the quantizer with Quantization::build.
Build ==
    /\ ~pq.built
    /\ pq_call.op = "none"
    /\ \E shape \in Shapes, value_type \in DrawnTypes, distance_type \in DistanceTypes,
          is_fsl \in BOOLEAN :
          LET data == IF is_fsl
                      THEN FixedSizeList(value_type, shape.dimension,
                                         Generated(0, shape.dimension))
                      ELSE Primitive(value_type, Generated(0, shape.dimension))
          IN  \E codebook \in {NoArray} \cup
                    {SomeArray(Primitive(value_type, CodebookValues(shape, seed))) :
                        seed \in Seeds} :
              \E trained \in (IF is_fsl /\ ~codebook.some
                              THEN TrainOutcomes(data, distance_type,
                                                 shape.num_sub_vectors, shape.num_bits)
                              ELSE {IndexError}) :
                  LET params == [num_sub_vectors |-> shape.num_sub_vectors,
                                 num_bits |-> shape.num_bits, codebook |-> codebook]
                      result == build(data, distance_type, params, trained)
                  IN  /\ pq' = IF result.outcome = "Ok" THEN result.value ELSE pq
                      /\ pq_call' = [op |-> "build", pre |-> pq, asked |-> distance_type,
                                     input |-> [user_codebook |-> codebook.some],
                                     result |-> result]
    /\ UNCHANGED outsidePq

\* A caller constructs the quantizer with Quantization::from_metadata, from
\* metadata that holds the codebook as an array or as a tensor.
FromMetadata ==
    /\ ~pq.built
    /\ pq_call.op = "none"
    /\ \E shape \in Shapes, value_type \in DrawnTypes, seed \in Seeds,
          distance_type \in DistanceTypes, as_tensor \in BOOLEAN :
          LET fsl == FixedSizeList(value_type, shape.dimension, CodebookValues(shape, seed))
              meta == [codebook_position |-> 0, nbits |-> shape.num_bits,
                       num_sub_vectors |-> shape.num_sub_vectors,
                       dimension |-> shape.dimension,
                       codebook |-> [some |-> ~as_tensor, fsl |-> fsl],
                       codebook_tensor |-> tensor_from_fsl(fsl),
                       transposed |-> FALSE]
              result == from_metadata(meta, distance_type)
          IN  /\ pq' = IF result.outcome = "Ok" THEN result.value ELSE pq
              /\ pq_call' = [op |-> "from_metadata", pre |-> pq, asked |-> distance_type,
                             input |-> [as_tensor |-> as_tensor], result |-> result]
    /\ UNCHANGED outsidePq

\* A reader constructs the quantizer with from_proto: from the message that
\* the conversion to pb::Pq has just returned, or, for the first quantizer,
\* from a message of the legacy form (a flat codebook and no tensor).
FromProto ==
    /\ \/ pq_call.op = "to_proto"
       \/ ~pq.built /\ pq_call.op = "none"
    /\ \E message \in (IF pq_call.op = "to_proto" THEN {pq_call.result.value}
                       ELSE {[num_bits |-> shape.num_bits,
                              num_sub_vectors |-> shape.num_sub_vectors,
                              dimension |-> shape.dimension,
                              codebook |-> CodebookValues(shape, seed),
                              codebook_tensor |-> NoTensor] :
                                 shape \in Shapes, seed \in Seeds}),
          distance_type \in DistanceTypes :
          LET result == from_proto(message, distance_type)
          IN  /\ pq' = IF result.outcome = "Ok" THEN result.value ELSE pq
              /\ pq_call' = [op |-> "from_proto", pre |-> pq, asked |-> distance_type,
                             input |-> message, result |-> result]
    /\ UNCHANGED outsidePq

\* A caller converts the quantizer to pb::Pq.
ToProto ==
    /\ pq.built
    /\ pq_call.op = "none"
    /\ pq_call' = [op |-> "to_proto", pre |-> pq, asked |-> pq.distance_type,
                   input |-> <<>>, result |-> to_proto(pq)]
    /\ UNCHANGED pq
    /\ UNCHANGED outsidePq

\* A caller quantizes an array: vectors of the element type and dimension of
\* the quantizer, an array that is no FixedSizeList, or vectors of Int8. The
\* nearest centroid is modelled for the distance types L2 and Dot.
Quantize ==
    /\ pq.built
    /\ pq_call.op = "none"
    /\ pq.distance_type \in {"L2", "Dot"}
    /\ \E vectors \in
            {Primitive(pq.codebook.value_type, Generated(2, pq.dimension)),
             FixedSizeList("Int8", pq.dimension, Generated(2, pq.dimension))}
            \cup {FixedSizeList(pq.codebook.value_type, pq.dimension,
                                Generated(seed + 2, n * pq.dimension)) :
                     n \in 0..MaxVectors, seed \in Seeds} :
          pq_call' = [op |-> "quantize", pre |-> pq, asked |-> pq.distance_type,
                      input |-> vectors, result |-> quantize(pq, vectors)]
    /\ UNCHANGED pq
    /\ UNCHANGED outsidePq

\* A caller computes the distances of a query to a transposed block of
\* codes: the codes of 0..MaxVectors vectors; the query has the dimension of
\* the quantizer and its element type, another float type, or Int8. The
\* quantizer has 8 bits, or 4 bits and an even number of sub-vectors.
ComputeDistances ==
    /\ pq.built
    /\ pq_call.op = "none"
    /\ pq.num_bits = 8 \/ (pq.num_bits = 4 /\ pq.num_sub_vectors % 2 = 0)
    /\ \E query \in
            {Primitive(pq.codebook.value_type, Generated(seed + 1, pq.dimension)) :
                seed \in Seeds}
            \cup {Primitive(type, Generated(1, pq.dimension)) :
                      type \in (DrawnTypes \cup {"Int8"}) \ {pq.codebook.value_type}},
          num_vectors \in 0..MaxVectors, seed \in Seeds, debug_assertions \in BOOLEAN :
          LET code == GeneratedBytes(seed, num_vectors * field(pq).value_length)
          IN  pq_call' = [op |-> "compute_distances", pre |-> pq,
                          asked |-> pq.distance_type,
                          input |-> [query |-> query, code |-> code],
                          result |-> compute_distances(pq, query, code,
                                                       debug_assertions)]
    /\ UNCHANGED pq
    /\ UNCHANGED outsidePq

\* A caller reads the centroids of one sub-vector.
Centroids ==
    /\ pq.built
    /\ pq_call.op = "none"
    /\ \E sub_vector_idx \in 0..(pq.num_sub_vectors - 1) :
          pq_call' = [op |-> "centroids", pre |-> pq, asked |-> pq.distance_type,
                      input |-> sub_vector_idx, result |-> centroids(pq, sub_vector_idx)]
    /\ UNCHANGED pq
    /\ UNCHANGED outsidePq

\* A caller asks for the field of the column of codes.
Field ==
    /\ pq.built
    /\ pq_call.op = "none"
    /\ pq_call' = [op |-> "field", pre |-> pq, asked |-> pq.distance_type,
                   input |-> <<>>, result |-> PqOk(field(pq))]
    /\ UNCHANGED pq
    /\ UNCHANGED outsidePq

\* A caller asks for the metadata, with no arguments, with a codebook
\* position or with arguments that hold none.
Metadata ==
    /\ pq.built
    /\ pq_call.op = "none"
    /\ \E args \in {[some |-> FALSE, codebook_position |-> [some |-> FALSE, position |-> 0],
                     transposed |-> FALSE],
                    [some |-> TRUE, codebook_position |-> [some |-> TRUE, position |-> 1],
                     transposed |-> TRUE],
                    [some |-> TRUE, codebook_position |-> [some |-> FALSE, position |-> 0],
                     transposed |-> FALSE]} :
          pq_call' = [op |-> "metadata", pre |-> pq, asked |-> pq.distance_type,
                      input |-> args, result |-> metadata(pq, args)]
    /\ UNCHANGED pq
    /\ UNCHANGED outsidePq

\* A caller retrains the quantizer on vectors of some dimension that
\* num_sub_vectors divides, or on an array that is no FixedSizeList.
Retrain ==
    /\ pq.built
    /\ pq_call.op = "none"
    /\ \E w \in 1..MaxSubDim, is_fsl \in BOOLEAN :
          LET dim == pq.num_sub_vectors * w
              data == IF is_fsl
                      THEN FixedSizeList(pq.codebook.value_type, dim, Generated(0, dim))
                      ELSE Primitive(pq.codebook.value_type, Generated(0, dim))
          IN  \E built \in TrainOutcomes(data, pq.distance_type,
                                         pq.num_sub_vectors, pq.num_bits) :
                  LET after == retrain(pq, built)
                  IN  /\ pq' = after.self
                      /\ pq_call' = [op |-> "retrain", pre |-> pq,
                                     asked |-> pq.distance_type,
                                     input |-> built, result |-> after.result]
    /\ UNCHANGED outsidePq

\* The caller has taken the outcome of its call.
ReturnPqCall ==
    /\ pq_call.op \notin {"none"}
    /\ pq_call' = NoPqCall
    /\ UNCHANGED pq
    /\ UNCHANGED outsidePq

PqNext ==
    \/ Build
    \/ FromMetadata
    \/ FromProto
    \/ ToProto
    \/ Quantize
    \/ ComputeDistances
    \/ Centroids
    \/ Field
    \/ Metadata
    \/ Retrain
    \/ ReturnPqCall

(***************************************************************************)
(* residual.rs: the residual transform.                                    *)
(*                                                                         *)
(* A RecordBatch is the sequence of its columns, each a name and an array; *)
(* its schema is the names and the types of the arrays. Every column of a  *)
(* batch has one entry per row.                                            *)
(***************************************************************************)
PQ_CODE_COLUMN == "__pq_code"
RESIDUAL_COLUMN == "__residual_vector"

Column(name, array) == [name |-> name, array |-> array]

\* RecordBatch::column_by_name(name): the first column of that name
column_by_name(batch, name) ==
    IF \E p \in DOMAIN batch : batch[p].name = name
    THEN [some |-> TRUE,
          position |-> CHOOSE p \in DOMAIN batch :
                           /\ batch[p].name = name
                           /\ \A q \in 1..(p - 1) : batch[q].name # name]
    ELSE [some |-> FALSE, position |-> 0]

\* ResidualTransform::new(centroids, part_col, column)
ResidualTransform(centroid_arr, part_col, column) ==
    [built |-> TRUE, centroids |-> centroid_arr, part_col |-> part_col, vec_col |-> column]
NoTransform ==
    [built |-> FALSE, centroids |-> FixedSizeList("Float32", 1, <<>>),
     part_col |-> "", vec_col |-> ""]

\* The outcome of transform: the batch returned and the number of residual
\* values that were computed for it.
TransformOk(batch, computed) ==
    [outcome |-> "Ok", error |-> "none", message |-> "none", batch |-> batch,
     computed |-> computed]
TransformFailed(outcome, error, message) ==
    [outcome |-> outcome, error |-> error, message |-> message, batch |-> <<>>,
     computed |-> 0]

\* Mutant of ResidualError: the error is of kind InvalidInput.
ResidualInvalidInput(message) ==
    [outcome |-> "Err", error |-> "InvalidInput", message |-> message, value |-> <<>>]

\* Err(Error::Index { message, location }) of compute_residual
ResidualError(message) ==
    [outcome |-> "Err", error |-> "Index", message |-> message, value |-> <<>>]

\* Mutant of do_compute_residual: every residual is taken against centroid 0.
ResidualAgainstFirstCentroid(T, centroid_arr, vectors, partitions) ==
    LET dimension == centroid_arr.value_length
        rows == Len(vectors.values) \div dimension
    IN  IF \E idx \in 1..rows : (partitions[idx] + 1) * dimension > Len(centroid_arr.values)
        THEN PqPanic
        ELSE PqOk(FixedSizeList(T, dimension,
                 [p \in 1..(rows * dimension) |->
                     vectors.values[p] - centroid_arr.values[((p - 1) % dimension) + 1]]))

\* do_compute_residual::<T>(centroids, vectors, None, Some(partitions)): a
\* partition id beyond the centroids is a slice index out of range.
do_compute_residual(T, centroid_arr, vectors, partitions) ==
    LET dimension == centroid_arr.value_length
        rows == Len(vectors.values) \div dimension
    IN  IF \E idx \in 1..rows : (partitions[idx] + 1) * dimension > Len(centroid_arr.values)
        THEN PqPanic
        ELSE PqOk(FixedSizeList(T, dimension,
                 [p \in 1..(rows * dimension) |->
                     vectors.values[p]
                       - centroid_arr.values[partitions[((p - 1) \div dimension) + 1] * dimension
                                          + ((p - 1) % dimension) + 1]]))

\* Mutant of compute_residual: Int8 vectors are promoted to the type of the
\* centroids, whatever it is.
ComputeResidualPromotingInt8(centroid_arr, vectors, partitions) ==
    IF centroid_arr.value_length # vectors.value_length
    THEN ResidualError("centroid and vector length mismatch")
    ELSE IF vectors.value_type \in {centroid_arr.value_type, "Int8"}
    THEN do_compute_residual(centroid_arr.value_type, centroid_arr,
             FixedSizeList(centroid_arr.value_type, vectors.value_length, vectors.values),
             partitions)
    ELSE ResidualError("centroids and vector type mismatch")

\* compute_residual(centroids, vectors, None, Some(partitions));
\* convert_to_floating_point turns Int8 values into the same Float32 values.
compute_residual(centroid_arr, vectors, partitions) ==
    IF centroid_arr.value_length # vectors.value_length
    THEN ResidualError("centroid and vector length mismatch")
    ELSE LET types == <<centroid_arr.value_type, vectors.value_type>>
         IN  IF types \in {<<"Float16", "Float16">>, <<"Float32", "Float32">>,
                           <<"Float64", "Float64">>, <<"Float32", "Int8">>}
             THEN do_compute_residual(centroid_arr.value_type, centroid_arr,
                      FixedSizeList(centroid_arr.value_type, vectors.value_length,
                                    vectors.values),
                      partitions)
             ELSE ResidualError("centroids and vector type mismatch")

\* RecordBatchExt::replace_column_by_name and replace_column_schema_by_name:
\* the column of that name holds the new array (and has its type).
replace_column_by_name(batch, name, array) ==
    [p \in DOMAIN batch |->
        IF p = column_by_name(batch, name).position THEN Column(name, array)
        ELSE batch[p]]

\* Mutant of has_pq_code: a batch with codes is transformed like any other.
NoPqCodeShortcut(batch) == FALSE

\* batch.column_by_name(PQ_CODE_COLUMN).is_some()
has_pq_code(batch) == column_by_name(batch, PQ_CODE_COLUMN).some

\* Mutant of partition_not_found: the vectors are assigned to partition 0
\* and their residuals are returned.
PartitionsRecomputed(self, batch) ==
    LET original == column_by_name(batch, self.vec_col)
    IN  IF ~original.some \/ batch[original.position].array.kind # "FixedSizeList"
        THEN TransformFailed("Err", "Index", "original vector column not found")
        ELSE LET vectors == batch[original.position].array
                 residual_arr ==
                     compute_residual(self.centroids, vectors,
                         [r \in 1..(Len(vectors.values) \div vectors.value_length) |-> 0])
             IN  IF residual_arr.outcome # "Ok"
                 THEN TransformFailed("Err", "Index", residual_arr.message)
                 ELSE TransformOk(
                          replace_column_by_name(batch, self.vec_col, residual_arr.value),
                          Len(residual_arr.value.values))

\* batch.column_by_name(&self.part_col).ok_or(Error::Index { .. })? on a
\* batch without that column
partition_not_found(self, batch) ==
    TransformFailed("Err", "Index", "partition id column not found")

\* ResidualTransform::transform(batch)
residual_transform(self, batch) ==
    LET part_ids == column_by_name(batch, self.part_col)
        original == column_by_name(batch, self.vec_col)
    IN  IF has_pq_code(batch) THEN TransformOk(batch, 0)
        ELSE IF ~part_ids.some THEN partition_not_found(self, batch)
        ELSE IF ~original.some
        THEN TransformFailed("Err", "Index", "original vector column not found")
        ELSE IF batch[original.position].array.kind # "FixedSizeList"
        THEN TransformFailed("Err", "Index", "original vector column is not fixed size list")
        ELSE IF batch[part_ids.position].array.value_type # "UInt32"
        THEN TransformFailed("Panic", "none", "none")
        ELSE LET residual_arr == compute_residual(self.centroids,
                                     batch[original.position].array,
                                     batch[part_ids.position].array.values)
             IN  IF residual_arr.outcome = "Panic"
                 THEN TransformFailed("Panic", "none", "none")
                 ELSE IF residual_arr.outcome # "Ok"
                 THEN TransformFailed("Err", residual_arr.error, residual_arr.message)
                 ELSE TransformOk(
                          replace_column_by_name(batch, self.vec_col, residual_arr.value),
                          Len(residual_arr.value.values))

NoResidualCall == [op |-> "none", batch |-> <<>>, result |-> TransformOk(<<>>, 0)]

ResidualInit ==
    /\ transformer = NoTransform
    /\ residual_call = NoResidualCall

\* A caller constructs the transform over MaxPartitions centroids.
NewResidualTransform ==
    /\ ~transformer.built
    /\ \E type \in FloatTypes, dimension \in 1..MaxSubDim, seed \in Seeds :
          transformer' = ResidualTransform(
              FixedSizeList(type, dimension, Generated(seed, MaxPartitions * dimension)),
              "__ivf_part_id", "vector")
    /\ UNCHANGED residual_call
    /\ UNCHANGED outsideResidual

\* The partition-id column of a batch of the model: none, UInt32 ids below
\* the number of centroids, UInt32 ids of which the last is beyond them, or
\* ids of type Int32.
PartColumns(rows, seed) ==
    LET ids == [r \in 1..rows |-> (seed + r) % MaxPartitions]
    IN  {<<>>,
         <<Column("__ivf_part_id", Primitive("UInt32", ids))>>,
         <<Column("__ivf_part_id", Primitive("UInt32",
               [r \in 1..rows |-> IF r = rows THEN MaxPartitions ELSE ids[r]]))>>,
         <<Column("__ivf_part_id", Primitive("Int32", ids))>>}

\* The vector column of a batch of the model: none, a column that is no
\* FixedSizeList, or vectors of a float type or of Int8.
VectorColumns(rows, seed) ==
    {<<>>, <<Column("vector", Primitive("Float32", Generated(seed + 1, rows)))>>}
    \cup {<<Column("vector", FixedSizeList(type, dimension,
                                           Generated(seed + 1, rows * dimension)))>> :
              type \in FloatTypes \cup {"Int8"}, dimension \in 1..MaxSubDim}

\* A caller transforms a batch of 0..MaxVectors rows: an id column, then the
\* partition ids, the vectors and the PQ codes, each present or not.
Transform ==
    /\ transformer.built
    /\ residual_call.op = "none"
    /\ \E rows \in 0..MaxVectors, seed \in Seeds, has_code \in BOOLEAN :
          \E part \in PartColumns(rows, seed), vectors \in VectorColumns(rows, seed) :
              LET batch == <<Column("id", Primitive("UInt64", [r \in 1..rows |-> r]))>>
                           \o part \o vectors
                           \o (IF has_code
                               THEN <<Column(PQ_CODE_COLUMN,
                                             FixedSizeList("UInt8", 1,
                                                           GeneratedBytes(seed, rows)))>>
                               ELSE <<>>)
              IN  residual_call' = [op |-> "transform", batch |-> batch,
                                    result |-> residual_transform(transformer, batch)]
    /\ UNCHANGED transformer
    /\ UNCHANGED outsideResidual

\* The caller has taken the outcome of its call.
ReturnResidualCall ==
    /\ residual_call.op # "none"
    /\ residual_call' = NoResidualCall
    /\ UNCHANGED transformer
    /\ UNCHANGED outsideResidual

ResidualNext ==
    \/ NewResidualTransform
    \/ Transform
    \/ ReturnResidualCall

Init == FlagsInit /\ FlatInit /\ PqInit /\ ResidualInit

FlagsSpec == Init /\ [][FlagsNext]_vars
GateSpec == Init /\ [][GateNext]_vars
FlatSpec == Init /\ [][FlatNext]_vars
RemapSpec == Init /\ [][RemapNext]_vars
PqSpec == Init /\ [][PqNext]_vars
ResidualSpec == Init /\ [][ResidualNext]_vars

Next == FlagsNext \/ GateNext \/ FlatNext \/ RemapNext \/ PqNext \/ ResidualNext
Spec == Init /\ [][Next]_vars

(***************************************************************************)
(* Properties of feature_flags.rs                                          *)
(***************************************************************************)
\* What the manifest holds, stated without the operators of the model.
FragsWithDeletionFile(m) ==
    {i \in DOMAIN m.fragments : m.fragments[i].deletion_file = "Some"}
FragsWithRowIdMeta(m) ==
    {i \in DOMAIN m.fragments : m.fragments[i].row_id_meta = "Some"}
NumFragments(m) == Len(m.fragments)
\* Bit positions of a flag word above the known bits 1, 2, 4, 8.
UnknownBitPositions == 4..30
KnownBitCombinations ==
    {a + b + c + d : a \in {0, 1}, b \in {0, 2}, c \in {0, 4}, d \in {0, 8}}
Applied == call.op = "apply"
AppliedOk == call.op = "apply" /\ call.result = "Ok"

\* C1: can_read_dataset(f) and can_write_dataset(f) are true exactly when no
\* bit of f at or above the first unknown bit (16) is set: every combination
\* of the known bits 1, 2, 4, 8 is admitted, and a word with bit 16 or a
\* higher bit set is refused whatever its lower bits.
C1_AdmitIffBelowUnknown ==
    call.op \in {"can_read_dataset", "can_write_dataset"} =>
        /\ call.answer <=> (\A k \in UnknownBitPositions : ~HasBit(call.flags, k))
        /\ call.flags \in KnownBitCombinations => call.answer

\* C1 witness: a word with a high bit set and all its lower bits known was
\* refused by can_read_dataset.
C1_Witness ==
    /\ call.op = "can_read_dataset"
    /\ call.flags = 2 ^ 20 + 15
    /\ ~call.answer

\* C2: if some fragment has row-id metadata or enable_stable_row_id is true,
\* apply_feature_flags succeeds exactly when every fragment has row-id
\* metadata and otherwise returns an invalid-input error; on success bit 2 is
\* set in both words; with no row-id metadata and enable_stable_row_id false
\* the call succeeds with bit 2 clear in both words.
C2_StableRowIds ==
    Applied =>
        LET some == FragsWithRowIdMeta(manifest) # {}
            every == Cardinality(FragsWithRowIdMeta(manifest)) = NumFragments(manifest)
        IN  /\ call.result \in {"Ok", "InvalidInput"}
            /\ (some \/ call.enable) =>
                    /\ call.result = "Ok" <=> every
                    /\ call.result = "Ok" =>
                            /\ HasBit(manifest.reader_feature_flags, 1)
                            /\ HasBit(manifest.writer_feature_flags, 1)
            /\ (~some /\ ~call.enable) =>
                    /\ call.result = "Ok"
                    /\ ~HasBit(manifest.reader_feature_flags, 1)
                    /\ ~HasBit(manifest.writer_feature_flags, 1)

\* C2 witness: a manifest with zero fragments and enable_stable_row_id = TRUE
\* succeeded with bit 2 set in both words.
C2_Witness ==
    /\ AppliedOk
    /\ call.enable
    /\ manifest.fragments = <<>>
    /\ HasBit(manifest.reader_feature_flags, 1)
    /\ HasBit(manifest.writer_feature_flags, 1)

\* C3: after a successful apply_feature_flags, whatever the words held
\* before, bit 1 is set in the reader word and in the writer word exactly
\* when some fragment has a deletion file.
C3_DeletionFilesBit ==
    AppliedOk =>
        /\ HasBit(manifest.reader_feature_flags, 0)
                <=> FragsWithDeletionFile(manifest) # {}
        /\ HasBit(manifest.writer_feature_flags, 0)
                <=> FragsWithDeletionFile(manifest) # {}

\* C3 witness: the words held bit 1 before the call, no fragment has a
\* deletion file any more, and the call cleared the bit.
C3_Witness ==
    /\ AppliedOk
    /\ HasBit(call.pre_reader, 0) /\ HasBit(call.pre_writer, 0)
    /\ manifest.fragments # <<>>
    /\ FragsWithDeletionFile(manifest) = {}
    /\ ~HasBit(manifest.reader_feature_flags, 0)

\* C4: after a successful apply_feature_flags, bit 8 is set in the writer
\* word exactly when the config map is non-empty, and is never set in the
\* reader word.
C4_TableConfigBit ==
    AppliedOk =>
        /\ HasBit(manifest.writer_feature_flags, 3) <=> (DOMAIN manifest.config # {})
        /\ ~HasBit(manifest.reader_feature_flags, 3)

\* C4 witness: a non-empty config, a reader word that held bit 8 before the
\* call, and a successful call that left bit 8 in the writer word only.
C4_Witness ==
    /\ AppliedOk
    /\ DOMAIN manifest.config # {}
    /\ HasBit(call.pre_reader, 3)
    /\ HasBit(manifest.writer_feature_flags, 3)
    /\ ~HasBit(manifest.reader_feature_flags, 3)

\* C5: after any apply_feature_flags call, successful or not, bit 4 is clear
\* in both words and has_deprecated_v2_feature_flag is false on the writer
\* word; has_deprecated_v2_feature_flag(w) is true exactly when bit 4 of w is
\* set.
C5_DeprecatedV2NeverSet ==
    /\ Applied =>
            /\ ~HasBit(manifest.reader_feature_flags, 2)
            /\ ~HasBit(manifest.writer_feature_flags, 2)
            /\ ~has_deprecated_v2_feature_flag(manifest.writer_feature_flags)
    /\ call.op = "has_deprecated_v2_feature_flag" =>
            (call.answer <=> HasBit(call.flags, 2))

\* C5 witness: a foreign writer had left bit 4 in both words and the call
\* failed; bit 4 is clear all the same.
C5_Witness ==
    /\ Applied
    /\ call.result = "InvalidInput"
    /\ HasBit(call.pre_reader, 2) /\ HasBit(call.pre_writer, 2)
    /\ ~HasBit(manifest.writer_feature_flags, 2)

\* C6: two apply_feature_flags calls in a row with the same argument on an
\* unchanged manifest: the second returns what the first returned and leaves
\* the reader and writer words as the first left them.
C6_Idempotent ==
    (Applied /\ prev.valid /\ prev.enable = call.enable) =>
        /\ call.result = prev.result
        /\ manifest.reader_feature_flags = prev.reader
        /\ manifest.writer_feature_flags = prev.writer

\* C6 witness: a second call in a row on a manifest with deletion files,
\* row ids and a config, with all three bits standing.
C6_Witness ==
    /\ AppliedOk /\ prev.valid /\ prev.enable = call.enable
    /\ manifest.writer_feature_flags = 11
    /\ manifest.reader_feature_flags = 3

\* C26: when apply_feature_flags returns the error "All fragments must have
\* row ids", the flag words of the manifest are not kept as they were before
\* the call: both were reset and computed again up to the error, so the
\* reader word equals the writer word, and each is 1 if some fragment has a
\* deletion file and 0 otherwise (the stable-row-id bit and the table-config
\* bit are clear), whatever the words were before the call.
C26_ErrorLeavesRecomputedFlags ==
    (Applied /\ call.result = "InvalidInput") =>
        LET expected == IF FragsWithDeletionFile(manifest) # {} THEN 1 ELSE 0
        IN  /\ manifest.reader_feature_flags = expected
            /\ manifest.writer_feature_flags = expected
            /\ manifest.reader_feature_flags = manifest.writer_feature_flags
            /\ ~HasBit(manifest.writer_feature_flags, 1)
            /\ ~HasBit(manifest.writer_feature_flags, 3)
            /\ ~HasBit(manifest.reader_feature_flags, 1)

\* C26 witness: a manifest whose words were 3 and 11 got a fragment without
\* row ids; the failed call left both words at 1.
C26_Witness ==
    /\ Applied /\ call.result = "InvalidInput"
    /\ call.pre_reader = 3 /\ call.pre_writer = 11
    /\ manifest.reader_feature_flags = 1
    /\ manifest.writer_feature_flags = 1
    /\ manifest.config # <<>>

(***************************************************************************)
(* Properties of flat.rs                                                   *)
(***************************************************************************)
\* The row ids of the rows of the index whose value slot satisfies P.
IdsOfRows(P(_)) ==
    {index.data.row_ids[i] :
        i \in {k \in DOMAIN index.data.values : P(index.data.values[k])}}
Returned(type) == search_call.state = "returned" /\ search_call.query.type = type
BothUnbounded(q) == q.lower.kind = "Unbounded" /\ q.upper.kind = "Unbounded"

\* C7: search(Equals(v)) with a non-null v returns Exact with exactly the row
\* ids of the rows whose value is non-null and equal to v; search(Equals(null))
\* returns the row ids of the rows whose value is null, the same set as
\* search(IsNull).
C7_Equals ==
    Returned("Equals") =>
        LET v == search_call.query.value
            SameValue(slot) == slot.valid /\ slot.value = v.value
            IsNullSlot(slot) == ~slot.valid
        IN  /\ search_call.result.outcome = "Exact"
            /\ v.valid => search_call.result.row_ids = IdsOfRows(SameValue)
            /\ ~v.valid =>
                   /\ search_call.result.row_ids = IdsOfRows(IsNullSlot)
                   /\ search_call.result.row_ids = search(index, IsNull).row_ids

\* C7 witness: a column with a null and the value 1; Equals(1) returned the
\* row id of the second row only.
C7_Witness ==
    /\ Returned("Equals")
    /\ search_call.query.value = Some(1)
    /\ index.data.values = <<Null, Some(1)>>
    /\ search_call.result = Exact({index.data.row_ids[2]})

\* C8: for bounds (l, u) not both Unbounded, search(Range(l, u)) returns the
\* intersection of what search(Range(l, Unbounded)) and
\* search(Range(Unbounded, u)) return (an Unbounded side imposing no
\* constraint), that is the row ids of the non-null values within the bounds,
\* each bound included or excluded as given; no row id of a null value is in it.
C8_RangeIsConjunction ==
    (Returned("Range") /\ ~BothUnbounded(search_call.query)) =>
        LET l == search_call.query.lower
            u == search_call.query.upper
            R == search_call.result.row_ids
            AnySlot(slot) == TRUE
            IsNullSlot(slot) == ~slot.valid
            Lower == IF l.kind = "Unbounded" THEN IdsOfRows(AnySlot)
                     ELSE search(index, Range(l, Unbounded)).row_ids
            Upper == IF u.kind = "Unbounded" THEN IdsOfRows(AnySlot)
                     ELSE search(index, Range(Unbounded, u)).row_ids
            AboveLower(x) ==
                \/ l.kind = "Unbounded"
                \/ l.kind = "Included" /\ l.value.valid /\ x >= l.value.value
                \/ l.kind = "Excluded" /\ l.value.valid /\ x > l.value.value
            BelowUpper(x) ==
                \/ u.kind = "Unbounded"
                \/ u.kind = "Included" /\ u.value.valid /\ x <= u.value.value
                \/ u.kind = "Excluded" /\ u.value.valid /\ x < u.value.value
            Within(slot) == slot.valid /\ AboveLower(slot.value) /\ BelowUpper(slot.value)
        IN  /\ search_call.result.outcome = "Exact"
            /\ R = Lower \cap Upper
            /\ R = IdsOfRows(Within)
            /\ R \cap IdsOfRows(IsNullSlot) = {}

\* C8 witness: an index built by load_subindex over the value 1 and a null;
\* the two-sided range [1, 2) returned the row id of the value 1 only.
C8_Witness ==
    /\ Returned("Range")
    /\ index.built_by = "load_subindex"
    /\ index.has_nulls
    /\ search_call.query.lower = Included(Some(1))
    /\ search_call.query.upper = Excluded(Some(2))
    /\ index.data.values = <<Some(1), Null>>
    /\ search_call.result.row_ids = {index.data.row_ids[1]}

\* C9: search(IsIn(list)) returns the row ids of the rows whose non-null
\* value is in list, and also the row ids of the rows whose value is null
\* exactly when list contains a null and the column has nulls.
C9_IsInJoinsNulls ==
    Returned("IsIn") =>
        LET list == search_call.query.values
            members == {list[j].value : j \in {k \in DOMAIN list : list[k].valid}}
            list_has_null == \E j \in DOMAIN list : ~list[j].valid
            IsMember(slot) == slot.valid /\ slot.value \in members
            IsNullSlot(slot) == ~slot.valid
        IN  /\ search_call.result.outcome = "Exact"
            /\ search_call.result.row_ids =
                   IdsOfRows(IsMember) \cup
                   (IF list_has_null /\ IdsOfRows(IsNullSlot) # {}
                    THEN IdsOfRows(IsNullSlot) ELSE {})

\* C10 as stated: search(Range(Unbounded, Unbounded)) returns an InvalidInput
\* error value (no panic, no row ids).
C10_UnboundedRangeIsError ==
    (Returned("Range") /\ BothUnbounded(search_call.query)) =>
        /\ search_call.result.outcome = "Err"
        /\ search_call.result.error = "InvalidInput"
        /\ search_call.result.row_ids = {}

\* C10 amended: search(Range(Unbounded, Unbounded)) panics, after the
\* comparisons were recorded: the caller gets neither an error value nor a
\* SearchResult, so no row ids; the index is as it was.
C10_UnboundedRangePanics ==
    (Returned("Range") /\ BothUnbounded(search_call.query)) =>
        /\ search_call.result.outcome = "Panic"
        /\ search_call.result.error = "none"
        /\ search_call.result.row_ids = {}
        /\ search_call.comparisons = Len(index.data.values)

\* C10 witness: the all-unbounded range was issued on an index with rows.
C10_Witness ==
    /\ Returned("Range")
    /\ BothUnbounded(search_call.query)
    /\ Len(index.data.values) = MaxRows
    /\ search_call.result.outcome = "Panic"

\* C11: search(FullTextSearch(_)) returns an invalid-input error and no
\* SearchResult (no row ids), whatever the index holds; a search that
\* succeeds returns the Exact variant, never another one; can_answer_exact
\* answers true for every query.
C11_FullTextRejectedAlwaysExact ==
    /\ Returned("FullTextSearch") =>
            /\ search_call.result.outcome = "Err"
            /\ search_call.result.error = "InvalidInput"
            /\ search_call.result.row_ids = {}
    /\ (search_call.state = "returned"
            /\ search_call.result.outcome \notin {"Err", "Panic"}) =>
            search_call.result.outcome = "Exact"
    /\ search_call.state = "answered" => search_call.answer

\* C11 witness: a full text search was issued on an index with rows and
\* nulls and came back as an error.
C11_Witness ==
    /\ Returned("FullTextSearch")
    /\ Len(index.data.values) = MaxRows
    /\ index.has_nulls
    /\ search_call.comparisons = MaxRows
    /\ search_call.result.outcome = "Err"

(***************************************************************************)
(* Properties of remap and calculate_included_frags                        *)
(***************************************************************************)
Remapped == index_call.op \in {"remap", "remap_subindex"}
\* The rows of a batch that a mapping does not delete.
KeptRows(batch, mapping) ==
    {i \in DOMAIN batch.row_ids :
        batch.row_ids[i] \in DOMAIN mapping => mapping[batch.row_ids[i]].some}
\* The position in the output of the kept row i of the input.
RankIn(kept, i) == Cardinality({j \in kept : j <= i})

\* C12: remap_batch(batch, mapping), as called by remap_subindex and by
\* FlatIndex::remap, returns in the original row order exactly one row
\* (value_i, new_id_i) for each input row i whose row id is not mapped to
\* None: new_id_i is mapping[id_i] when the key is present and id_i when it
\* is absent, value_i is the value paired with id_i. The two output columns
\* have equal length; an empty mapping returns the input batch; a mapping
\* that sends every row id to None returns zero rows without error.
C12_RemapBatch ==
    Remapped =>
        LET batch == index_call.serialized
            mapping == index_call.mapping
            out == index_call.batch
            kept == KeptRows(batch, mapping)
        IN  /\ index_call.outcome = "Ok"
            /\ Len(out.values) = Len(out.row_ids)
            /\ Len(out.row_ids) = Cardinality(kept)
            /\ \A i \in kept :
                   /\ out.values[RankIn(kept, i)] = batch.values[i]
                   /\ out.row_ids[RankIn(kept, i)] =
                          (IF batch.row_ids[i] \in DOMAIN mapping
                           THEN mapping[batch.row_ids[i]].id ELSE batch.row_ids[i])
            /\ DOMAIN mapping = {} => out = batch
            /\ kept = {} => Len(out.values) = 0 /\ Len(out.row_ids) = 0
            /\ index_call.op = "remap" =>
                   dest_store = [written |-> TRUE, batch |-> out]

\* C12 witness: a batch of two rows, the first renamed to a new row id and
\* the second absent from the mapping, whose one key that is no row id of
\* the batch is deleted.
C12_Witness ==
    /\ index_call.op = "remap_subindex"
    /\ index_call.serialized =
           [values |-> <<Null, Some(1)>>,
            row_ids |-> <<[hi |-> 1, lo |-> 0], [hi |-> 0, lo |-> 0]>>]
    /\ DOMAIN index_call.mapping = {[hi |-> 1, lo |-> 0], [hi |-> 0, lo |-> 1]}
    /\ index_call.mapping[[hi |-> 0, lo |-> 1]] = NoneId
    /\ index_call.batch =
           [values |-> <<Null, Some(1)>>,
            row_ids |-> <<[hi |-> 2, lo |-> 0], [hi |-> 0, lo |-> 0]>>]

Quantized ==
    /\ pq_call.op = "quantize"
    /\ pq_call.input.kind = "FixedSizeList"
    /\ pq_call.input.value_type \in FloatTypes
NumVectors == Len(pq_call.input.values) \div pq.dimension
SubDim == pq.dimension \div pq.num_sub_vectors
\* Sub-vector i (from 0) of vector v (from 0) of the quantized array.
SubVector(v, i) ==
    [k \in 1..SubDim |-> pq_call.input.values[v * pq.dimension + i * SubDim + k]]
\* The distance of the quantizer between two sub-vectors.
DistanceBetween(x, y) ==
    IF pq.distance_type = "Dot"
    THEN 1 - SeqSum([k \in 1..Len(x) |-> x[k] * y[k]])
    ELSE SeqSum([k \in 1..Len(x) |-> (x[k] - y[k]) * (x[k] - y[k])])
\* Centroid c of sub-vector i in a codebook stored sub-vector by sub-vector,
\* and in a codebook stored as num_centroids rows of length dimension.
CentroidOfSlice(i, c) ==
    [k \in 1..SubDim |->
        pq.codebook.values[(i * num_centroids(pq.num_bits) + c) * SubDim + k]]
CentroidOfRow(i, c) ==
    [k \in 1..SubDim |-> pq.codebook.values[c * pq.dimension + i * SubDim + k]]
\* The code (from 0) at position i of vector v in an 8-bit result.
CodeAt(v, i) == pq_call.result.value.values[v * pq.num_sub_vectors + i + 1]

\* C14 as stated: for num_bits = 8 the code at position i is the index of a
\* centroid c whose sub-vector i, read at
\* codebook[c * dimension + i * sub_dim .. c * dimension + (i + 1) * sub_dim],
\* is nearest to sub-vector i of the vector.
C14_NearestInRowMajorCodebook ==
    (Quantized /\ pq.num_bits = 8) =>
        /\ pq_call.result.outcome = "Ok"
        /\ fsl_len(pq_call.result.value) = NumVectors
        /\ \A v \in 0..(NumVectors - 1), i \in 0..(pq.num_sub_vectors - 1) :
               \A c \in 0..(num_centroids(8) - 1) :
                   DistanceBetween(SubVector(v, i), CentroidOfRow(i, CodeAt(v, i)))
                       <= DistanceBetween(SubVector(v, i), CentroidOfRow(i, c))

\* C14 amended: for num_bits = 8 quantize emits one row of num_sub_vectors
\* codes per input vector, in input order; the code at position i is an
\* index c at which the c-th sub_dim-wide chunk of centroids(i), the slice
\* codebook[i * num_centroids * sub_dim .. (i + 1) * num_centroids * sub_dim],
\* is nearest to sub-vector i of the vector under the distance type (L2 or
\* Dot) of the quantizer.
C14_NearestInSubVectorSlice ==
    (Quantized /\ pq.num_bits = 8) =>
        /\ pq_call.result.outcome = "Ok"
        /\ fsl_len(pq_call.result.value) = NumVectors
        /\ pq_call.result.value.value_length = pq.num_sub_vectors
        /\ \A v \in 0..(NumVectors - 1), i \in 0..(pq.num_sub_vectors - 1) :
               \A c \in 0..(num_centroids(8) - 1) :
                   DistanceBetween(SubVector(v, i), CentroidOfSlice(i, CodeAt(v, i)))
                       <= DistanceBetween(SubVector(v, i), CentroidOfSlice(i, c))

\* C14 witness: an 8-bit quantizer with several sub-vectors encoded the
\* largest array of vectors, and not every code is 0.
C14_Witness ==
    /\ Quantized /\ pq.num_bits = 8
    /\ pq.num_sub_vectors = MaxSubVectors
    /\ NumVectors = MaxVectors
    /\ pq_call.result.outcome = "Ok"
    /\ \E v \in 0..(NumVectors - 1), i \in 0..(pq.num_sub_vectors - 1) : CodeAt(v, i) > 0

\* The row length in bytes that the claim gives: ceil(num_sub_vectors * num_bits / 8).
CodeBytes == (pq.num_sub_vectors * pq.num_bits + 7) \div 8
\* The codes of the sub-vectors of vector v (from 0), before packing.
CodesOf(v) ==
    sub_vec_code(pq, [k \in 1..pq.dimension |-> pq_call.input.values[v * pq.dimension + k]])

\* C15: for num_bits = 4 with an even num_sub_vectors byte k of the code of
\* a vector is (code[2k+1] << 4) | code[2k]: the first sub-vector of a pair
\* in the low nibble, the second in the high nibble. Each output row has
\* ceil(num_sub_vectors * num_bits / 8) bytes (num_sub_vectors for 8 bits,
\* num_sub_vectors / 2 for 4 bits), the list size that field() gives. For
\* num_bits = 4 with an odd num_sub_vectors and for num_bits outside {4, 8}
\* quantize returns an Index error and no codes.
C15_CodeLayout ==
    Quantized =>
        IF pq.num_bits \notin {4, 8} \/ (pq.num_bits = 4 /\ pq.num_sub_vectors % 2 = 1)
        THEN /\ pq_call.result.outcome = "Err"
             /\ pq_call.result.error = "Index"
             /\ pq_call.result.value = <<>>
        ELSE LET codes == pq_call.result.value
             IN  /\ pq_call.result.outcome = "Ok"
                 /\ codes.value_length = CodeBytes
                 /\ codes.value_length = field(pq).value_length
                 /\ codes.value_length =
                        (IF pq.num_bits = 8 THEN pq.num_sub_vectors
                         ELSE pq.num_sub_vectors \div 2)
                 /\ Len(codes.values) = NumVectors * CodeBytes
                 /\ \A v \in 0..(NumVectors - 1), k \in 0..(CodeBytes - 1) :
                        LET byte == codes.values[v * CodeBytes + k + 1]
                        IN  IF pq.num_bits = 4
                            THEN /\ byte % 16 = CodesOf(v)[2 * k + 1]
                                 /\ byte \div 16 = CodesOf(v)[2 * k + 2]
                            ELSE byte = CodesOf(v)[k + 1]

\* C15 witness: a 4-bit quantizer with two sub-vectors packed a pair of
\* different codes into one byte.
C15_Witness ==
    /\ Quantized /\ pq.num_bits = 4 /\ pq.num_sub_vectors = 2
    /\ pq_call.result.outcome = "Ok"
    /\ NumVectors >= 1
    /\ pq_call.result.value.value_length = 1
    /\ pq_call.result.value.values[1] % 16 # pq_call.result.value.values[1] \div 16

\* C16: a quantizer returned by build (with a codebook of the caller or a
\* trained one), by from_metadata or by from_proto that was asked for Cosine
\* has distance_type = L2; no quantizer that these constructors return has
\* distance_type = Cosine, so compute_distances never runs on a Cosine
\* quantizer.
C16_CosineBecomesL2 ==
    /\ (pq_call.op \in {"build", "from_metadata", "from_proto"}
           /\ pq_call.result.outcome = "Ok") =>
           /\ pq.distance_type # "Cosine"
           /\ pq_call.asked = "Cosine" => pq.distance_type = "L2"
    /\ pq_call.op = "compute_distances" => pq.distance_type # "Cosine"

\* C17: the conversion to pb::Pq gives a message with the num_bits,
\* num_sub_vectors and dimension of the quantizer, an empty legacy codebook
\* and a tensor of shape [num_centroids, dimension]; from_proto on that
\* message gives a quantizer with the same num_bits, num_sub_vectors,
\* dimension and codebook; from_proto on a message without a tensor reads
\* the legacy array as Float32 with dimension columns.
C17_ProtoRoundTrip ==
    /\ pq_call.op = "to_proto" =>
            LET message == pq_call.result.value
            IN  /\ pq_call.result.outcome = "Ok"
                /\ message.num_bits = pq.num_bits
                /\ message.num_sub_vectors = pq.num_sub_vectors
                /\ message.dimension = pq.dimension
                /\ message.codebook = <<>>
                /\ message.codebook_tensor.some
                /\ message.codebook_tensor.tensor.shape =
                       <<num_centroids(pq.num_bits), pq.dimension>>
    /\ (pq_call.op = "from_proto" /\ pq_call.input.codebook_tensor.some) =>
            /\ pq_call.result.outcome = "Ok"
            /\ pq.num_bits = pq_call.pre.num_bits
            /\ pq.num_sub_vectors = pq_call.pre.num_sub_vectors
            /\ pq.dimension = pq_call.pre.dimension
            /\ pq.codebook = pq_call.pre.codebook
    /\ (pq_call.op = "from_proto" /\ ~pq_call.input.codebook_tensor.some) =>
            /\ pq_call.result.outcome = "Ok"
            /\ pq.num_bits = pq_call.input.num_bits
            /\ pq.num_sub_vectors = pq_call.input.num_sub_vectors
            /\ pq.dimension = pq_call.input.dimension
            /\ pq.codebook.value_type = "Float32"
            /\ pq.codebook.value_length = pq_call.input.dimension
            /\ pq.codebook.values = pq_call.input.codebook

\* C17 witness: an 8-bit quantizer with a Float16 codebook that holds a
\* negative value came back from its message with the same codebook.
C17_Witness ==
    /\ pq_call.op = "from_proto"
    /\ pq_call.input.codebook_tensor.some
    /\ pq_call.pre.built
    /\ pq_call.pre.num_bits = 8
    /\ pq_call.pre.codebook.value_type = "Float16"
    /\ \E p \in DOMAIN pq_call.pre.codebook.values : pq_call.pre.codebook.values[p] < 0
    /\ pq.codebook = pq_call.pre.codebook

\* C18: after retrain the quantizer is the one the build returned, in all
\* of its fields, or, when the build failed, the one held before the call,
\* and the error is returned; quantize, centroids, field, metadata and the
\* conversion to protobuf leave the quantizer as it was.
C18_RetrainReplacesWhole ==
    /\ pq_call.op = "retrain" =>
            IF pq_call.input.outcome = "Ok"
            THEN /\ pq_call.result.outcome = "Ok"
                 /\ pq.num_sub_vectors = pq_call.input.value.num_sub_vectors
                 /\ pq.num_bits = pq_call.input.value.num_bits
                 /\ pq.dimension = pq_call.input.value.dimension
                 /\ pq.codebook = pq_call.input.value.codebook
                 /\ pq.distance_type = pq_call.input.value.distance_type
            ELSE /\ pq_call.result.outcome = "Err"
                 /\ pq = pq_call.pre
    /\ pq_call.op \in {"quantize", "compute_distances", "centroids", "field",
                        "metadata", "to_proto"} => pq = pq_call.pre

\* C18 witness: a retrain on vectors of another dimension succeeded and the
\* quantizer has the new dimension and the new codebook.
C18_Witness ==
    /\ pq_call.op = "retrain"
    /\ pq_call.input.outcome = "Ok"
    /\ pq.dimension # pq_call.pre.dimension
    /\ pq.codebook # pq_call.pre.codebook
    /\ pq = pq_call.input.value

\* A compute_distances call, the number of vectors in its code block, the
\* code (from 0) of sub-vector i of vector k in the transposed block, and
\* sub-vector i of the query.
Scored == pq_call.op = "compute_distances"
BlockVectors == Len(pq_call.input.code) \div CodeBytes
CodeInBlock(k, i) ==
    IF pq.num_bits = 4
    THEN LET byte == pq_call.input.code[(i \div 2) * BlockVectors + k + 1]
         IN  IF i % 2 = 0 THEN byte % 16 ELSE byte \div 16
    ELSE pq_call.input.code[i * BlockVectors + k + 1]
QuerySub(i) == [j \in 1..SubDim |-> pq_call.input.query.values[i * SubDim + j]]
\* The sum over the sub-vectors i of the distance of sub-vector i of the
\* query to the centroid that the code of vector k names.
Accumulated(k) ==
    SeqSum([i \in 1..pq.num_sub_vectors |->
               DistanceBetween(QuerySub(i - 1),
                               CentroidOfSlice(i - 1, CodeInBlock(k, i - 1)))])

\* C19: compute_distances on a transposed code block of N vectors returns N
\* scores, the k-th being the sum of table[i, code_i] over the sub-vectors i
\* of the k-th vector; for an empty block it returns no scores and builds
\* no distance table, whatever the distance type; for L2 a score is the sum
\* itself and is >= 0, for Dot it is the sum minus (num_sub_vectors - 1).
C19_DistancesInBlockOrder ==
    Scored =>
        /\ pq_call.input.code = <<>> =>
               /\ pq_call.result.outcome = "Ok"
               /\ pq_call.result.value.scores = <<>>
               /\ pq_call.result.value.table = <<>>
        /\ (/\ pq_call.input.code # <<>>
            /\ pq_call.input.query.value_type = pq.codebook.value_type
            /\ pq.distance_type \in {"L2", "Dot"}) =>
               LET scores == pq_call.result.value.scores
                   table == pq_call.result.value.table
                   bias == IF pq.distance_type = "Dot" THEN pq.num_sub_vectors - 1 ELSE 0
               IN  /\ pq_call.result.outcome = "Ok"
                   /\ pq_call.result.value.divisor = 1
                   /\ Len(scores) = BlockVectors
                   /\ Len(table) = pq.num_sub_vectors * num_centroids(pq.num_bits)
                   /\ \A k \in 0..(BlockVectors - 1) :
                          /\ scores[k + 1] + bias =
                                 SeqSum([i \in 1..pq.num_sub_vectors |->
                                     table[(i - 1) * num_centroids(pq.num_bits)
                                           + CodeInBlock(k, i - 1) + 1]])
                          /\ scores[k + 1] = Accumulated(k) - bias
                          /\ pq.distance_type = "L2" => scores[k + 1] >= 0

\* C19 witness: a Dot quantizer with several sub-vectors scored the largest
\* block, and the scores of its vectors differ.
C19_Witness ==
    /\ Scored
    /\ pq.distance_type = "Dot"
    /\ pq.num_sub_vectors = MaxSubVectors
    /\ BlockVectors = MaxVectors
    /\ pq_call.result.outcome = "Ok"
    /\ pq_call.result.value.scores[1] # pq_call.result.value.scores[2]

(***************************************************************************)
(* Properties of residual.rs                                               *)
(***************************************************************************)
Transformed == residual_call.op = "transform"
HasColumn(batch, name) == \E p \in DOMAIN batch : batch[p].name = name

\* C20: transform on a batch that has a column named __pq_code returns a
\* batch equal to the one given, with the same columns, names, types and
\* rows, and computes no residual, whether or not the partition column or
\* the vector column is there and whatever their types.
C20_PqCodeBatchUnchanged ==
    (Transformed /\ HasColumn(residual_call.batch, "__pq_code")) =>
        /\ residual_call.result.outcome = "Ok"
        /\ residual_call.result.batch = residual_call.batch
        /\ residual_call.result.computed = 0

\* C20 witness: a batch with rows and codes came back as it was, although it
\* has no partition column and its vectors do not have the type of the
\* centroids.
C20_Witness ==
    /\ Transformed
    /\ HasColumn(residual_call.batch, "__pq_code")
    /\ ~HasColumn(residual_call.batch, transformer.part_col)
    /\ \E p \in DOMAIN residual_call.batch :
           /\ residual_call.batch[p].name = transformer.vec_col
           /\ residual_call.batch[p].array.kind = "FixedSizeList"
           /\ residual_call.batch[p].array.value_type # transformer.centroids.value_type
           /\ Len(residual_call.batch[p].array.values) > 0
    /\ residual_call.result.batch = residual_call.batch

\* The column of that name in the batch given to transform, and in the batch
\* it returned.
Given(name) ==
    residual_call.batch[CHOOSE p \in DOMAIN residual_call.batch :
                            residual_call.batch[p].name = name].array
ReturnedColumn(name) ==
    residual_call.result.batch[CHOOSE p \in DOMAIN residual_call.result.batch :
                                   residual_call.result.batch[p].name = name].array
NumCentroids == Len(transformer.centroids.values) \div transformer.centroids.value_length
PermittedTypes ==
    {<<"Float16", "Float16">>, <<"Float32", "Float32">>, <<"Float64", "Float64">>,
     <<"Float32", "Int8">>}
\* A transform call on a batch without PQ codes that has UInt32 partition
\* ids and a FixedSizeList of vectors.
OnVectors ==
    /\ Transformed
    /\ ~HasColumn(residual_call.batch, "__pq_code")
    /\ HasColumn(residual_call.batch, transformer.part_col)
    /\ Given(transformer.part_col).value_type = "UInt32"
    /\ HasColumn(residual_call.batch, transformer.vec_col)
    /\ Given(transformer.vec_col).kind = "FixedSizeList"
SameDimension ==
    Given(transformer.vec_col).value_length = transformer.centroids.value_length
TypesPermitted ==
    <<transformer.centroids.value_type, Given(transformer.vec_col).value_type>>
        \in PermittedTypes
IdsBelowCentroids ==
    \A r \in DOMAIN Given(transformer.part_col).values :
        Given(transformer.part_col).values[r] < NumCentroids

\* C21: for a batch without __pq_code whose partition ids are all below the
\* number of centroids (and whose vectors have the dimension of the
\* centroids and a permitted element type) transform returns a batch with
\* the same columns and rows in the same order, in which row r of the
\* vector column is, element by element, vector[r] - centroids[part_id[r]],
\* every other column is as it was, and the residuals have the element type
\* of the centroids: the type of the vector column changes only when it
\* differed from that of the centroids (Int8 vectors, Float32 centroids).
C21_ResidualPerRow ==
    (OnVectors /\ SameDimension /\ TypesPermitted /\ IdsBelowCentroids) =>
        LET given == residual_call.batch
            returned == residual_call.result.batch
            dimension == transformer.centroids.value_length
            vectors == Given(transformer.vec_col)
            part_id == Given(transformer.part_col).values
        IN  /\ residual_call.result.outcome = "Ok"
            /\ Len(returned) = Len(given)
            /\ \A p \in DOMAIN given :
                   /\ returned[p].name = given[p].name
                   /\ given[p].name # transformer.vec_col => returned[p] = given[p]
            /\ LET residuals == ReturnedColumn(transformer.vec_col)
               IN  /\ residuals.kind = "FixedSizeList"
                   /\ residuals.value_type = transformer.centroids.value_type
                   /\ residuals.value_length = dimension
                   /\ Len(residuals.values) = Len(vectors.values)
                   /\ (vectors.value_type = transformer.centroids.value_type) =>
                          (residuals.value_type = vectors.value_type)
                   /\ \A r \in 0..(Len(part_id) - 1), j \in 1..dimension :
                          residuals.values[r * dimension + j] =
                              vectors.values[r * dimension + j]
                                - transformer.centroids.values[part_id[r + 1] * dimension + j]

\* C21 witness: Int8 vectors in different partitions were turned into
\* Float32 residuals that are not the vectors themselves.
C21_Witness ==
    /\ OnVectors /\ SameDimension /\ IdsBelowCentroids
    /\ Given(transformer.vec_col).value_type = "Int8"
    /\ transformer.centroids.value_type = "Float32"
    /\ Len(Given(transformer.part_col).values) = MaxVectors
    /\ Given(transformer.part_col).values[1] # Given(transformer.part_col).values[2]
    /\ residual_call.result.outcome = "Ok"
    /\ ReturnedColumn(transformer.vec_col).value_type = "Float32"
    /\ ReturnedColumn(transformer.vec_col).values # Given(transformer.vec_col).values

\* A transform call on a batch that has neither PQ codes nor the partition
\* column.
WithoutPartitions ==
    /\ Transformed
    /\ ~HasColumn(residual_call.batch, "__pq_code")
    /\ ~HasColumn(residual_call.batch, transformer.part_col)

\* C22 as stated: on a batch without the partition column (and without
\* __pq_code) transform assigns each vector to a partition itself and
\* returns a batch whose vector column holds the residuals against those
\* partitions.
C22_PartitionsRecomputed ==
    (/\ WithoutPartitions
     /\ HasColumn(residual_call.batch, transformer.vec_col)
     /\ Given(transformer.vec_col).kind = "FixedSizeList"
     /\ SameDimension /\ TypesPermitted) =>
        /\ residual_call.result.outcome = "Ok"
        /\ LET dimension == transformer.centroids.value_length
               vectors == Given(transformer.vec_col)
               residuals == ReturnedColumn(transformer.vec_col)
           IN  \A r \in 0..((Len(vectors.values) \div dimension) - 1) :
                   \E c \in 0..(NumCentroids - 1) :
                       \A j \in 1..dimension :
                           residuals.values[r * dimension + j] =
                               vectors.values[r * dimension + j]
                                 - transformer.centroids.values[c * dimension + j]

\* C22 amended: on a batch without the partition column (and without
\* __pq_code) transform returns the Index error "partition id column not
\* found", whatever the vector column is; it returns no batch and computes
\* no residual.
C22_MissingPartitionsIsError ==
    WithoutPartitions =>
        /\ residual_call.result.outcome = "Err"
        /\ residual_call.result.error = "Index"
        /\ residual_call.result.message = "partition id column not found"
        /\ residual_call.result.batch = <<>>
        /\ residual_call.result.computed = 0

\* C22 witness: a batch with rows of vectors that fit the centroids, but
\* without partition ids, was rejected.
C22_Witness ==
    /\ WithoutPartitions
    /\ HasColumn(residual_call.batch, transformer.vec_col)
    /\ Given(transformer.vec_col).kind = "FixedSizeList"
    /\ SameDimension /\ TypesPermitted
    /\ Len(Given(transformer.vec_col).values) > 0
    /\ residual_call.result.outcome = "Err"

\* C23: after transform has computed residuals, the batch it returns has a
\* column named __residual_vector (RESIDUAL_COLUMN) that holds the residual
\* vectors.
C23_ResidualColumnName ==
    (/\ OnVectors /\ SameDimension /\ TypesPermitted /\ IdsBelowCentroids
     /\ residual_call.result.outcome = "Ok") =>
        /\ HasColumn(residual_call.result.batch, RESIDUAL_COLUMN)
        /\ ReturnedColumn(RESIDUAL_COLUMN).kind = "FixedSizeList"
        /\ Len(ReturnedColumn(RESIDUAL_COLUMN).values) = residual_call.result.computed

\* C24: compute_residual accepts exactly the pairs (centroid element type,
\* vector element type) (F16, F16), (F32, F32), (F64, F64) and (F32, Int8);
\* for every other pair it returns an error and no residuals, and transform
\* returns that error and no batch.
C24_TypeMatrix ==
    (OnVectors /\ SameDimension) =>
        IF TypesPermitted
        THEN /\ residual_call.result.outcome # "Err"
             /\ IdsBelowCentroids =>
                    /\ residual_call.result.outcome = "Ok"
                    /\ residual_call.result.computed =
                           Len(Given(transformer.vec_col).values)
        ELSE /\ residual_call.result.outcome = "Err"
             /\ residual_call.result.error = "Index"
             /\ residual_call.result.message = "centroids and vector type mismatch"
             /\ residual_call.result.batch = <<>>
             /\ residual_call.result.computed = 0

\* C24 witness: Int8 vectors, which Float32 centroids accept, were rejected
\* by Float64 centroids of the same dimension.
C24_Witness ==
    /\ OnVectors /\ SameDimension /\ IdsBelowCentroids
    /\ transformer.centroids.value_type = "Float64"
    /\ Given(transformer.vec_col).value_type = "Int8"
    /\ Len(Given(transformer.vec_col).values) > 0
    /\ residual_call.result.outcome = "Err"

\* A transform call whose vectors do not have the dimension of the centroids.
DimensionMismatch == OnVectors /\ ~SameDimension

\* C25 as stated: when the dimension of the centroids differs from that of
\* the vectors, compute_residual, and so transform, fails with an error of
\* kind InvalidInput, before the types are matched and before any residual
\* is computed.
C25_MismatchIsInvalidInput ==
    DimensionMismatch =>
        /\ residual_call.result.outcome = "Err"
        /\ residual_call.result.error = "InvalidInput"
        /\ residual_call.result.computed = 0

\* C25 amended: when the dimension of the centroids differs from that of the
\* vectors, compute_residual, and so transform, fails with an error of kind
\* Index ("centroid and vector length mismatch"), whether or not the
\* element types are a permitted pair and whatever the partition ids are;
\* no residual is computed and no batch is returned.
C25_MismatchIsIndexError ==
    DimensionMismatch =>
        /\ residual_call.result.outcome = "Err"
        /\ residual_call.result.error = "Index"
        /\ residual_call.result.message = "centroid and vector length mismatch"
        /\ residual_call.result.batch = <<>>
        /\ residual_call.result.computed = 0

\* C25 witness: vectors of another dimension and of a type that the
\* centroids do not accept, with a partition id beyond the centroids, were
\* rejected for their length.
C25_Witness ==
    /\ DimensionMismatch
    /\ ~TypesPermitted
    /\ ~IdsBelowCentroids
    /\ residual_call.result.message = "centroid and vector length mismatch"

====
